---- MODULE Spec2Model ----
(***************************************************************************)
(* A model of the coordinate core of egui_plot: PlotBounds (bounds.rs),    *)
(* PlotTransform (axis.rs), the grid spacer (grid.rs) and the link-group   *)
(* maps (bounds.rs, cursor.rs).                                            *)
(*                                                                         *)
(* Numbers.  An f64 is modelled as an extended rational <<n, d>>: d > 0 is *)
(* the finite value n/d in lowest terms, <<1,0>> is +inf, <<-1,0>> is -inf *)
(* and <<0,0>> is NaN.  Arithmetic is exact except that a finite result    *)
(* whose magnitude exceeds F64Max overflows to an infinity, as IEEE        *)
(* arithmetic does at f64::MAX (common factors are cancelled before a      *)
(* product is formed, to keep the integers small).  Signed zeros and the   *)
(* rounding of the mantissa are not modelled.  A cast to f32 rounds to the *)
(* nearest multiple of 1/F32Res.                                           *)
(***************************************************************************)
EXTENDS Integers, Sequences, FiniteSets, TLC

\* Model magnitude of f64::MAX: finite results beyond it overflow.
F64Max == 64
\* Resolution of the f32 screen coordinates: positions are multiples of 1/F32Res.
F32Res == 4
\* Number of mutating calls made on one transform / one bounds object.
MaxOps == 2

----------------------------------------------------------------------------
(* f64 arithmetic *)

Abs(i) == IF i < 0 THEN -i ELSE i
Sgn(i) == IF i > 0 THEN 1 ELSE IF i < 0 THEN -1 ELSE 0

RECURSIVE GCD(_, _)
GCD(a, b) == IF b = 0 THEN a ELSE GCD(b, a % b)

NaN == <<0, 0>>
INFINITY == <<1, 0>>
NEG_INFINITY == <<-1, 0>>
F64_MAX == <<F64Max, 1>>
F64_MIN == <<-F64Max, 1>>

R(n) == <<n, 1>>
ZERO == R(0)
ONE == R(1)
HALF == <<1, 2>>
TWO == R(2)

is_nan(a) == a = NaN
is_finite(a) == a[2] # 0
is_infinite(a) == a[2] = 0 /\ a[1] # 0

\* Lowest terms, positive denominator.
Norm(n, d) ==
    IF d = 0 THEN <<Sgn(n), 0>>
    ELSE LET g == GCD(Abs(n), Abs(d))
             s == Sgn(d)
         IN  <<(s * n) \div g, (s * d) \div g>>

\* The f64 nearest to n/d: itself, or an infinity on overflow.
Fl(n, d) ==
    LET v == Norm(n, d)
    IN  IF v[2] # 0 /\ Abs(v[1]) > F64Max * v[2] THEN <<Sgn(v[1]), 0>> ELSE v

Neg(a) == <<-a[1], a[2]>>

Add(a, b) ==
    IF is_nan(a) \/ is_nan(b) THEN NaN
    ELSE IF is_infinite(a) /\ is_infinite(b) THEN (IF a = b THEN a ELSE NaN)
    ELSE IF is_infinite(a) THEN a
    ELSE IF is_infinite(b) THEN b
    ELSE LET g == GCD(a[2], b[2])
         IN  Fl(a[1] * (b[2] \div g) + b[1] * (a[2] \div g), (a[2] \div g) * b[2])

Sub(a, b) == Add(a, Neg(b))

Mul(a, b) ==
    IF is_nan(a) \/ is_nan(b) THEN NaN
    ELSE IF is_infinite(a) \/ is_infinite(b)
         THEN (IF a[1] = 0 \/ b[1] = 0 THEN NaN ELSE <<Sgn(a[1]) * Sgn(b[1]), 0>>)
    ELSE LET g1 == GCD(Abs(a[1]), b[2])
             g2 == GCD(Abs(b[1]), a[2])
         IN  Fl((a[1] \div g1) * (b[1] \div g2), (a[2] \div g2) * (b[2] \div g1))

Div(a, b) ==
    IF is_nan(a) \/ is_nan(b) THEN NaN
    ELSE IF is_infinite(a) /\ is_infinite(b) THEN NaN
    ELSE IF is_infinite(a) THEN (IF b[1] < 0 THEN Neg(a) ELSE a)
    ELSE IF is_infinite(b) THEN ZERO
    ELSE IF b[1] = 0 THEN (IF a[1] = 0 THEN NaN ELSE <<Sgn(a[1]), 0>>)
    ELSE LET g1 == GCD(Abs(a[1]), Abs(b[1]))
             g2 == GCD(a[2], b[2])
         IN  Fl((a[1] \div g1) * (b[2] \div g2), (a[2] \div g2) * (b[1] \div g1))

\* a < b; false when either is NaN.
Lt(a, b) ==
    /\ ~is_nan(a)
    /\ ~is_nan(b)
    /\ IF a[2] = 0 /\ b[2] = 0 THEN a[1] < b[1]
       ELSE IF a[2] = 0 THEN a[1] < 0
       ELSE IF b[2] = 0 THEN b[1] > 0
       ELSE LET g == GCD(a[2], b[2])
            IN  a[1] * (b[2] \div g) < b[1] * (a[2] \div g)

Le(a, b) == ~is_nan(a) /\ ~is_nan(b) /\ (a = b \/ Lt(a, b))

f64_abs(a) == <<Abs(a[1]), a[2]>>

\* f64::min / f64::max: a NaN operand is ignored.
f64_min(a, b) == IF is_nan(a) THEN b ELSE IF is_nan(b) THEN a ELSE IF Lt(b, a) THEN b ELSE a
f64_max(a, b) == IF is_nan(a) THEN b ELSE IF is_nan(b) THEN a ELSE IF Lt(a, b) THEN b ELSE a

\* f64::clamp: NaN stays NaN.
f64_clamp(a, lo, hi) == IF Lt(a, lo) THEN lo ELSE IF Lt(hi, a) THEN hi ELSE a

\* `as f32`: round a finite value to the nearest multiple of 1/F32Res.
as_f32(a) ==
    IF ~is_finite(a) THEN a
    ELSE Norm((2 * a[1] * F32Res + a[2]) \div (2 * a[2]), F32Res)

----------------------------------------------------------------------------
(* PlotBounds (bounds.rs).  A bounds value is [min |-> <<x, y>>,           *)
(* max |-> <<x, y>>]; index 1 is the x axis (Rust index 0), 2 the y axis.  *)

from_min_max(mn, mx) == [min |-> mn, max |-> mx]

NOTHING == [min |-> <<INFINITY, INFINITY>>, max |-> <<NEG_INFINITY, NEG_INFINITY>>]

\* new_symmetrical that starts at the origin instead of straddling it.
new_symmetrical_from_origin(half_extent) ==
    from_min_max(<<ZERO, ZERO>>, <<half_extent, half_extent>>)

new_symmetrical(half_extent) ==
    [min |-> <<Neg(half_extent), Neg(half_extent)>>, max |-> <<half_extent, half_extent>>]

width(b) == Sub(b.max[1], b.min[1])
height(b) == Sub(b.max[2], b.min[2])

is_finite_x(b) == is_finite(b.min[1]) /\ is_finite(b.max[1])
is_finite_y(b) == is_finite(b.min[2]) /\ is_finite(b.max[2])
is_finite_bounds(b) == is_finite_x(b) /\ is_finite_y(b)

is_valid_x(b) == is_finite_x(b) /\ Lt(ZERO, width(b))
is_valid_y(b) == is_finite_y(b) /\ Lt(ZERO, height(b))
is_valid(b) == is_finite_bounds(b) /\ Lt(ZERO, width(b)) /\ Lt(ZERO, height(b))

\* emath::fast_midpoint: (a + b) / 2, no overflow handling.
fast_midpoint(a, b) == Div(Add(a, b), TWO)

center(b) == <<fast_midpoint(b.min[1], b.max[1]), fast_midpoint(b.min[2], b.max[2])>>

clamp_coord(v) ==
    LET c == f64_clamp(v, F64_MIN, F64_MAX)
    IN  IF is_nan(c) THEN ZERO ELSE c

clamp_to_finite(b) ==
    [min |-> <<clamp_coord(b.min[1]), clamp_coord(b.min[2])>>,
     max |-> <<clamp_coord(b.max[1]), clamp_coord(b.max[2])>>]

\* expand_x with the padding applied inwards.
expand_x_inwards(b, pad) ==
    IF is_finite(pad)
    THEN clamp_to_finite([min |-> <<Add(b.min[1], pad), b.min[2]>>,
                          max |-> <<Sub(b.max[1], pad), b.max[2]>>])
    ELSE b

expand_x(b, pad) ==
    IF is_finite(pad)
    THEN clamp_to_finite([min |-> <<Sub(b.min[1], pad), b.min[2]>>,
                          max |-> <<Add(b.max[1], pad), b.max[2]>>])
    ELSE b

expand_y(b, pad) ==
    IF is_finite(pad)
    THEN clamp_to_finite([min |-> <<b.min[1], Sub(b.min[2], pad)>>,
                          max |-> <<b.max[1], Add(b.max[2], pad)>>])
    ELSE b

set_x(b, other) == [min |-> <<other.min[1], b.min[2]>>, max |-> <<other.max[1], b.max[2]>>]
set_y(b, other) == [min |-> <<b.min[1], other.min[2]>>, max |-> <<b.max[1], other.max[2]>>]

set_x_center_width(b, x, w) ==
    [min |-> <<Sub(x, Div(w, TWO)), b.min[2]>>, max |-> <<Add(x, Div(w, TWO)), b.max[2]>>]

set_y_center_height(b, y, h) ==
    [min |-> <<b.min[1], Sub(y, Div(h, TWO))>>, max |-> <<b.max[1], Add(y, Div(h, TWO))>>]

translate_x(b, delta) ==
    IF is_finite(delta)
    THEN clamp_to_finite([min |-> <<Add(b.min[1], delta), b.min[2]>>,
                          max |-> <<Add(b.max[1], delta), b.max[2]>>])
    ELSE b

translate_y(b, delta) ==
    IF is_finite(delta)
    THEN clamp_to_finite([min |-> <<b.min[1], Add(b.min[2], delta)>>,
                          max |-> <<b.max[1], Add(b.max[2], delta)>>])
    ELSE b

translate(b, delta) == translate_y(translate_x(b, delta[1]), delta[2])

\* PlotBounds::zoom: each axis is scaled around `c` by 1/zoom_factor.
\* zoom that scales the distances to the centre and does not add the centre back.
PlotBounds_zoom_uncentred(b, zoom_factor, c) ==
    [min |-> <<Div(Sub(b.min[1], c[1]), zoom_factor[1]),
               Div(Sub(b.min[2], c[2]), zoom_factor[2])>>,
     max |-> <<Div(Sub(b.max[1], c[1]), zoom_factor[1]),
               Div(Sub(b.max[2], c[2]), zoom_factor[2])>>]

PlotBounds_zoom(b, zoom_factor, c) ==
    [min |-> <<Add(c[1], Div(Sub(b.min[1], c[1]), zoom_factor[1])),
               Add(c[2], Div(Sub(b.min[2], c[2]), zoom_factor[2]))>>,
     max |-> <<Add(c[1], Div(Sub(b.max[1], c[1]), zoom_factor[1])),
               Add(c[2], Div(Sub(b.max[2], c[2]), zoom_factor[2]))>>]

make_x_symmetrical(b) ==
    LET x_abs == f64_max(f64_abs(b.min[1]), f64_abs(b.max[1]))
    IN  [min |-> <<Neg(x_abs), b.min[2]>>, max |-> <<x_abs, b.max[2]>>]

make_y_symmetrical(b) ==
    LET y_abs == f64_max(f64_abs(b.min[2]), f64_abs(b.max[2]))
    IN  [min |-> <<b.min[1], Neg(y_abs)>>, max |-> <<b.max[1], y_abs>>]

----------------------------------------------------------------------------
(* PlotTransform (axis.rs).  A transform is [frame, bounds, centered,      *)
(* inverted_axis]; frame is [left, right, top, bottom] in screen points.   *)

frame_width(f) == Sub(f.right, f.left)
frame_height(f) == Sub(f.bottom, f.top)

\* emath::lerp and emath::remap, as called by the transform.
lerp(lo, hi, t) == Add(Mul(Sub(ONE, t), lo), Mul(t, hi))
remap(x, from_lo, from_hi, to_lo, to_hi) ==
    lerp(to_lo, to_hi, Div(Sub(x, from_lo), Sub(from_hi, from_lo)))

\* Sanitizing that looks at the already sanitized x axis when it picks the
\* extent of a thin y axis.
sanitized_bounds_in_sequence(bounds, center_axis) ==
    LET b1 == IF ~is_finite_x(bounds) THEN set_x(bounds, new_symmetrical(ONE))
              ELSE IF Le(width(bounds), ZERO)
                   THEN set_x_center_width(bounds, center(bounds)[1],
                            IF is_valid_y(bounds) THEN height(bounds) ELSE ONE)
              ELSE bounds
        b2 == IF ~is_finite_y(b1) THEN set_y(b1, new_symmetrical(ONE))
              ELSE IF Le(height(b1), ZERO)
                   THEN set_y_center_height(b1, center(b1)[2],
                            IF is_valid_x(b1) THEN width(b1) ELSE ONE)
              ELSE b1
        b3 == IF center_axis[1] THEN make_x_symmetrical(b2) ELSE b2
    IN  IF center_axis[2] THEN make_y_symmetrical(b3) ELSE b3

\* The sanitizing part of PlotTransform::new: the bounds the constructor stores.
sanitized_bounds(bounds, center_axis) ==
    LET b1 == IF ~is_finite_x(bounds) THEN set_x(bounds, new_symmetrical(ONE))
              ELSE IF Le(width(bounds), ZERO)
                   THEN set_x_center_width(bounds, center(bounds)[1],
                            IF is_valid_y(bounds) THEN height(bounds) ELSE ONE)
              ELSE bounds
        b2 == IF ~is_finite_y(bounds) THEN set_y(b1, new_symmetrical(ONE))
              ELSE IF Le(height(bounds), ZERO)
                   THEN set_y_center_height(b1, center(bounds)[2],
                            IF is_valid_x(bounds) THEN width(bounds) ELSE ONE)
              ELSE b1
        b3 == IF center_axis[1] THEN make_x_symmetrical(b2) ELSE b2
    IN  IF center_axis[2] THEN make_y_symmetrical(b3) ELSE b3

PlotTransform_new(frame, bounds, center_axis) ==
    [frame |-> frame,
     bounds |-> sanitized_bounds(bounds, center_axis),
     centered |-> center_axis,
     inverted_axis |-> <<FALSE, FALSE>>]

new_with_invert_axis(frame, bounds, center_axis, invert_axis) ==
    [PlotTransform_new(frame, bounds, center_axis) EXCEPT !.inverted_axis = invert_axis]

position_from_point_x(t, value) ==
    as_f32(IF t.inverted_axis[1]
           THEN remap(value, t.bounds.min[1], t.bounds.max[1], t.frame.right, t.frame.left)
           ELSE remap(value, t.bounds.min[1], t.bounds.max[1], t.frame.left, t.frame.right))

position_from_point_y(t, value) ==
    as_f32(IF t.inverted_axis[2]
           THEN remap(value, t.bounds.min[2], t.bounds.max[2], t.frame.top, t.frame.bottom)
           ELSE remap(value, t.bounds.min[2], t.bounds.max[2], t.frame.bottom, t.frame.top))

position_from_point(t, value) ==
    <<position_from_point_x(t, value[1]), position_from_point_y(t, value[2])>>

\* value_from_position without the inverted-axis cases.
value_from_position_ignoring_inversion(t, pos) ==
    <<remap(pos[1], t.frame.left, t.frame.right, t.bounds.min[1], t.bounds.max[1]),
      remap(pos[2], t.frame.bottom, t.frame.top, t.bounds.min[2], t.bounds.max[2])>>

value_from_position(t, pos) ==
    <<IF t.inverted_axis[1]
      THEN remap(pos[1], t.frame.right, t.frame.left, t.bounds.min[1], t.bounds.max[1])
      ELSE remap(pos[1], t.frame.left, t.frame.right, t.bounds.min[1], t.bounds.max[1]),
      IF t.inverted_axis[2]
      THEN remap(pos[2], t.frame.top, t.frame.bottom, t.bounds.min[2], t.bounds.max[2])
      ELSE remap(pos[2], t.frame.bottom, t.frame.top, t.bounds.min[2], t.bounds.max[2])>>

dpos_dvalue_x(t) ==
    Div(Mul(IF t.inverted_axis[1] THEN R(-1) ELSE ONE, frame_width(t.frame)), width(t.bounds))

\* dpos_dvalue_y with the sign convention of the x axis.
dpos_dvalue_y_like_x(t) ==
    Div(Mul(IF t.inverted_axis[2] THEN R(-1) ELSE ONE, frame_height(t.frame)), height(t.bounds))

dpos_dvalue_y(t) ==
    Div(Mul(IF t.inverted_axis[2] THEN ONE ELSE R(-1), frame_height(t.frame)), height(t.bounds))

dpos_dvalue(t) == <<dpos_dvalue_x(t), dpos_dvalue_y(t)>>
dvalue_dpos(t) == <<Div(ONE, dpos_dvalue_x(t)), Div(ONE, dpos_dvalue_y(t))>>

\* translate_bounds that pans a centered axis like any other.
translate_bounds_ignoring_centered(t, delta_pos) ==
    [t EXCEPT !.bounds =
        translate(t.bounds, <<Mul(delta_pos[1], dvalue_dpos(t)[1]),
                              Mul(delta_pos[2], dvalue_dpos(t)[2])>>)]

\* PlotTransform::set_bounds: the bounds are stored as given.
set_bounds(t, bounds) == [t EXCEPT !.bounds = bounds]

translate_bounds(t, delta_pos) ==
    LET d0 == IF t.centered[1] THEN ZERO ELSE delta_pos[1]
        d1 == IF t.centered[2] THEN ZERO ELSE delta_pos[2]
    IN  [t EXCEPT !.bounds =
            translate(t.bounds, <<Mul(d0, dvalue_dpos(t)[1]), Mul(d1, dvalue_dpos(t)[2])>>)]

\* zoom that commits without the validity check.
PlotTransform_zoom_unchecked(t, zoom_factor, c) ==
    [t EXCEPT !.bounds = PlotBounds_zoom(t.bounds, zoom_factor, value_from_position(t, c))]

PlotTransform_zoom(t, zoom_factor, c) ==
    LET new_bounds == PlotBounds_zoom(t.bounds, zoom_factor, value_from_position(t, c))
    IN  IF is_valid(new_bounds) THEN [t EXCEPT !.bounds = new_bounds] ELSE t

aspect(t) ==
    Div(Div(width(t.bounds), frame_width(t.frame)),
        Div(height(t.bounds), frame_height(t.frame)))

\* No tolerance at all.
no_epsilon == ZERO

\* 1e-5, the tolerance of the two aspect setters.
epsilon == <<1, 100000>>

\* set_aspect_by_expanding with the sign of the padding flipped: it contracts.
set_aspect_by_contracting(t, a) ==
    LET current_aspect == aspect(t)
    IN  IF Lt(f64_abs(Sub(current_aspect, a)), epsilon) THEN t
        ELSE IF Lt(current_aspect, a)
        THEN [t EXCEPT !.bounds = expand_x(t.bounds,
                 Mul(Mul(Sub(ONE, Div(a, current_aspect)), width(t.bounds)), HALF))]
        ELSE [t EXCEPT !.bounds = expand_y(t.bounds,
                 Mul(Mul(Sub(ONE, Div(current_aspect, a)), height(t.bounds)), HALF))]

set_aspect_by_expanding(t, a) ==
    LET current_aspect == aspect(t)
    IN  IF Lt(f64_abs(Sub(current_aspect, a)), epsilon) THEN t
        ELSE IF Lt(current_aspect, a)
        THEN [t EXCEPT !.bounds = expand_x(t.bounds,
                 Mul(Mul(Sub(Div(a, current_aspect), ONE), width(t.bounds)), HALF))]
        ELSE [t EXCEPT !.bounds = expand_y(t.bounds,
                 Mul(Mul(Sub(Div(current_aspect, a), ONE), height(t.bounds)), HALF))]

\* set_aspect_by_changing_axis that adjusts the axis that was not designated.
set_aspect_by_changing_other_axis(t, a, axis) ==
    LET current_aspect == aspect(t)
    IN  IF Lt(f64_abs(Sub(current_aspect, a)), epsilon) THEN t
        ELSE IF axis = "Y"
        THEN [t EXCEPT !.bounds = expand_x(t.bounds,
                 Mul(Mul(Sub(Div(a, current_aspect), ONE), width(t.bounds)), HALF))]
        ELSE [t EXCEPT !.bounds = expand_y(t.bounds,
                 Mul(Mul(Sub(Div(current_aspect, a), ONE), height(t.bounds)), HALF))]

set_aspect_by_changing_axis(t, a, axis) ==
    LET current_aspect == aspect(t)
    IN  IF Lt(f64_abs(Sub(current_aspect, a)), epsilon) THEN t
        ELSE IF axis = "X"
        THEN [t EXCEPT !.bounds = expand_x(t.bounds,
                 Mul(Mul(Sub(Div(a, current_aspect), ONE), width(t.bounds)), HALF))]
        ELSE [t EXCEPT !.bounds = expand_y(t.bounds,
                 Mul(Mul(Sub(Div(current_aspect, a), ONE), height(t.bounds)), HALF))]

----------------------------------------------------------------------------
(* Hit-testing (items/mod.rs, math.rs, items/bar_chart.rs, overlays/pin.rs).*)
(* A plot item is [name, color, allow_hover, geometry, points, bars]:       *)
(* geometry is "Points", "Rects" or "None"; points is the point sequence of *)
(* a Points item and bars the bar sequence of a bar chart.  Screen          *)
(* positions are <<x, y>>; arithmetic on them is exact.  Indices count from *)
(* 0 as in the source.                                                      *)

None == [some |-> FALSE]
Some(x) == [some |-> TRUE, value |-> x]
Panic == [panic |-> TRUE]

ClosestElem(index, dist_sq) == [index |-> index, dist_sq |-> dist_sq]

\* OrderedFloat (Float::ord): NaN compares greater than every number.
ord_less(a, b) == Lt(a, b) \/ (~is_nan(a) /\ is_nan(b))

\* Iterator::min_by_key on dist_sq.ord(): the first of the least elements.
RECURSIVE min_by_dist_sq(_)
min_by_dist_sq(elems) ==
    IF elems = <<>> THEN None
    ELSE LET e == elems[Len(elems)]
             before == min_by_dist_sq(SubSeq(elems, 1, Len(elems) - 1))
         IN  IF before = None THEN Some(e)
             ELSE IF ord_less(e.dist_sq, before.value.dist_sq) THEN Some(e)
             ELSE before

\* Iterator::max_by_key on dist_sq.ord(): the last of the greatest elements.
RECURSIVE max_by_dist_sq(_)
max_by_dist_sq(elems) ==
    IF elems = <<>> THEN None
    ELSE LET e == elems[Len(elems)]
             before == max_by_dist_sq(SubSeq(elems, 1, Len(elems) - 1))
         IN  IF before = None THEN Some(e)
             ELSE IF ord_less(e.dist_sq, before.value.dist_sq) THEN before
             ELSE Some(e)

\* Pos2::distance_sq
distance_sq(a, b) ==
    LET dx == Sub(a[1], b[1])
        dy == Sub(a[2], b[2])
    IN  Add(Mul(dx, dx), Mul(dy, dy))

\* The default find_closest that returns the farthest point.
find_closest_farthest(item, point, transform) ==
    IF item.geometry = "None" THEN None
    ELSE IF item.geometry = "Points"
    THEN max_by_dist_sq([k \in 1..Len(item.points) |->
            ClosestElem(k - 1, distance_sq(point, position_from_point(transform, item.points[k])))])
    ELSE Panic

\* The default find_closest that panics on an item without geometry.
find_closest_strict(item, point, transform) ==
    IF item.geometry = "Points"
    THEN min_by_dist_sq([k \in 1..Len(item.points) |->
            ClosestElem(k - 1, distance_sq(point, position_from_point(transform, item.points[k])))])
    ELSE Panic

\* PlotItem::find_closest (the default implementation).
find_closest(item, point, transform) ==
    IF item.geometry = "None" THEN None
    ELSE IF item.geometry = "Points"
    THEN min_by_dist_sq([k \in 1..Len(item.points) |->
            ClosestElem(k - 1, distance_sq(point, position_from_point(transform, item.points[k])))])
    ELSE Panic

\* PlotItem::on_hover (the default implementation), up to its geometry match:
\* it goes on to draw for a Points item and panics otherwise.
on_hover(item) == IF item.geometry = "Points" THEN Some("drawn") ELSE Panic

\* A Bar is [argument, value, bar_width, orientation], without base_offset.
Bar_lower(bar) == IF ~Lt(bar.value, ZERO) THEN ZERO ELSE bar.value
Bar_upper(bar) == IF ~Lt(bar.value, ZERO) THEN bar.value ELSE ZERO
Bar_point_at(bar, argument, value) ==
    IF bar.orientation = "Horizontal" THEN <<value, argument>> ELSE <<argument, value>>
Bar_bounds_min(bar) ==
    Bar_point_at(bar, Sub(bar.argument, Div(bar.bar_width, TWO)), Bar_lower(bar))
Bar_bounds_max(bar) ==
    Bar_point_at(bar, Add(bar.argument, Div(bar.bar_width, TWO)), Bar_upper(bar))

\* A BoxElem is [argument, box_width, whisker_width, lower_whisker,
\* upper_whisker, orientation].
BoxElem_bounds_min(b) ==
    Bar_point_at(b, Sub(b.argument, Div(f64_max(b.box_width, b.whisker_width), TWO)), b.lower_whisker)
BoxElem_bounds_max(b) ==
    Bar_point_at(b, Add(b.argument, Div(f64_max(b.box_width, b.whisker_width), TWO)), b.upper_whisker)

\* RectElement::bounds_min and bounds_max of a bar or of a box.
is_box(e) == "box_width" \in DOMAIN e
bounds_min(e) == IF is_box(e) THEN BoxElem_bounds_min(e) ELSE Bar_bounds_min(e)
bounds_max(e) == IF is_box(e) THEN BoxElem_bounds_max(e) ELSE Bar_bounds_max(e)

\* PlotTransform::rect_from_values: Rect::NOTHING extended with both corners.
rect_from_values(t, value1, value2) ==
    LET pos1 == position_from_point(t, value1)
        pos2 == position_from_point(t, value2)
    IN  [min |-> <<f64_min(f64_min(INFINITY, pos1[1]), pos2[1]),
                   f64_min(f64_min(INFINITY, pos1[2]), pos2[2])>>,
         max |-> <<f64_max(f64_max(NEG_INFINITY, pos1[1]), pos2[1]),
                   f64_max(f64_max(NEG_INFINITY, pos1[2]), pos2[2])>>]

\* Rect::distance_sq_to_pos
distance_sq_to_pos(rect, pos) ==
    LET dx == IF Lt(pos[1], rect.min[1]) THEN Sub(rect.min[1], pos[1])
              ELSE IF Lt(rect.max[1], pos[1]) THEN Sub(pos[1], rect.max[1])
              ELSE ZERO
        dy == IF Lt(pos[2], rect.min[2]) THEN Sub(rect.min[2], pos[2])
              ELSE IF Lt(rect.max[2], pos[2]) THEN Sub(pos[2], rect.max[2])
              ELSE ZERO
    IN  Add(Mul(dx, dx), Mul(dy, dy))

\* find_closest_rect that measures to the centre of each rectangle.
find_closest_rect_by_centre(rects, point, transform) ==
    min_by_dist_sq([k \in 1..Len(rects) |->
        LET bar_rect == rect_from_values(transform, bounds_min(rects[k]), bounds_max(rects[k]))
            mid == <<fast_midpoint(bar_rect.min[1], bar_rect.max[1]),
                     fast_midpoint(bar_rect.min[2], bar_rect.max[2])>>
        IN  ClosestElem(k - 1, distance_sq(mid, point))])

\* find_closest_rect that fails on an empty list.
find_closest_rect_nonempty(rects, point, transform) ==
    IF rects = <<>> THEN Panic
    ELSE min_by_dist_sq([k \in 1..Len(rects) |->
        LET bar_rect == rect_from_values(transform, bounds_min(rects[k]), bounds_max(rects[k]))
        IN  ClosestElem(k - 1, distance_sq_to_pos(bar_rect, point))])

\* math::find_closest_rect
find_closest_rect(rects, point, transform) ==
    min_by_dist_sq([k \in 1..Len(rects) |->
        LET bar_rect == rect_from_values(transform, bounds_min(rects[k]), bounds_max(rects[k]))
        IN  ClosestElem(k - 1, distance_sq_to_pos(bar_rect, point))])

\* BarChart::find_closest
BarChart_find_closest(item, point, transform) == find_closest_rect(item.bars, point, transform)

\* BoxPlot::find_closest; the boxes are held in the item's bars field.
BoxPlot_find_closest(item, point, transform) == find_closest_rect(item.bars, point, transform)

\* Rect::contains on the frame.
frame_contains(f, p) ==
    /\ Le(f.left, p[1]) /\ Le(p[1], f.right)
    /\ Le(f.top, p[2]) /\ Le(p[2], f.bottom)

\* The marker colour of an item: the text colour if the item is transparent.
base_color(item) == IF item.color = "TRANSPARENT" THEN "text_color" ELSE item.color

\* One turn of the loop over an item's points: point p of index ix is skipped
\* outside the band, and replaces the best so far if it is nearer in x.
best_step(best, ix, p, pointer_screen, band_min_x, band_max_x) ==
    IF Lt(p[1], band_min_x) \/ Lt(band_max_x, p[1]) THEN best
    ELSE IF Lt(f64_abs(Sub(p[1], pointer_screen[1])), best.dx)
         THEN [ix |-> Some(ix), dx |-> f64_abs(Sub(p[1], pointer_screen[1])),
               dy |-> f64_abs(Sub(p[2], pointer_screen[2])), pos |-> p]
         ELSE best

\* The loop over an item's points: the point of the band nearest in x to the
\* pointer, after the first n points.
RECURSIVE best_in_band(_, _, _, _, _, _)
best_in_band(points, n, transform, pointer_screen, band_min_x, band_max_x) ==
    IF n = 0 THEN [ix |-> None, dx |-> INFINITY, dy |-> ZERO, pos |-> <<ZERO, ZERO>>]
    ELSE best_step(best_in_band(points, n - 1, transform, pointer_screen, band_min_x, band_max_x),
                   n - 1, position_from_point(transform, points[n]),
                   pointer_screen, band_min_x, band_max_x)

\* The hits of one item, whatever its allow_hover flag: none or one HitPoint.
item_hits(item, transform, pointer_screen, band_min_x, band_max_x) ==
    LET best == IF item.geometry = "Points"
                THEN best_in_band(item.points, Len(item.points), transform,
                                  pointer_screen, band_min_x, band_max_x)
                ELSE best_in_band(<<>>, 0, transform, pointer_screen, band_min_x, band_max_x)
    IN  IF best.ix = None THEN <<>>
        ELSE <<[series_name |-> item.name,
                color |-> base_color(item),
                value |-> item.points[best.ix.value + 1],
                screen_pos |-> best.pos,
                screen_dx |-> best.dx,
                screen_dy |-> best.dy,
                is_highlighted |-> FALSE]>>

\* The loop over the items that hovers every item, allowed or not.
RECURSIVE band_hits_of_all(_, _, _, _, _)
band_hits_of_all(items, transform, pointer_screen, band_min_x, band_max_x) ==
    IF items = <<>> THEN <<>>
    ELSE band_hits_of_all(SubSeq(items, 1, Len(items) - 1), transform, pointer_screen,
                          band_min_x, band_max_x)
         \o item_hits(items[Len(items)], transform, pointer_screen, band_min_x, band_max_x)

\* The loop over the items: `hits` after the for loop.
RECURSIVE band_hits(_, _, _, _, _)
band_hits(items, transform, pointer_screen, band_min_x, band_max_x) ==
    IF items = <<>> THEN <<>>
    ELSE band_hits(SubSeq(items, 1, Len(items) - 1), transform, pointer_screen,
                   band_min_x, band_max_x)
         \o (IF ~items[Len(items)].allow_hover THEN <<>>
             ELSE item_hits(items[Len(items)], transform, pointer_screen, band_min_x, band_max_x))

\* hits.sort_by(series_name): a stable sort; names are numbered in their order.
RECURSIVE insert_by_name(_, _)
insert_by_name(s, h) ==
    IF s = <<>> THEN <<h>>
    ELSE IF h.series_name < s[Len(s)].series_name
         THEN Append(insert_by_name(SubSeq(s, 1, Len(s) - 1), h), s[Len(s)])
         ELSE Append(s, h)

RECURSIVE sort_by_name(_)
sort_by_name(s) ==
    IF s = <<>> THEN <<>>
    ELSE insert_by_name(sort_by_name(SubSeq(s, 1, Len(s) - 1)), s[Len(s)])

\* PlotUi::collect_hits.  pointer is None or Some(position).
collect_hits(items, transform, pointer, radius_px) ==
    IF pointer = None THEN <<>>
    ELSE LET pointer_screen == pointer.value
             frame == transform.frame
             band_min_x == f64_max(Sub(pointer_screen[1], radius_px), frame.left)
             band_max_x == f64_min(Add(pointer_screen[1], radius_px), frame.right)
         IN  IF ~frame_contains(frame, pointer_screen) THEN <<>>
             ELSE IF Le(band_max_x, band_min_x) THEN <<>>
             ELSE sort_by_name(band_hits(items, transform, pointer_screen, band_min_x, band_max_x))

\* The hits gathered by show_tooltip_across_series_with.
tooltip_hits(items, transform, pointer, radius_px) ==
    IF pointer = None THEN <<>>
    ELSE LET pointer_screen == pointer.value
             frame == transform.frame
             band_min_x == f64_max(Sub(pointer_screen[1], radius_px), frame.left)
             band_max_x == f64_min(Add(pointer_screen[1], radius_px), frame.right)
         IN  IF Le(band_max_x, band_min_x) THEN <<>>
             ELSE band_hits(items, transform, pointer_screen, band_min_x, band_max_x)

----------------------------------------------------------------------------
(* The grid spacer (grid.rs).  Grid values and step sizes are exact        *)
(* multiples of one unit and are written as integers in that unit; a       *)
(* GridMark is [value, step_size].  Step sizes are positive.               *)

\* (a / b).ceil() as i64, for b > 0.
ceil_div(a, b) == -((-a) \div b)

\* fill_marks_between whose range includes its end.
fill_marks_through(step_size, bounds) ==
    LET first == ceil_div(bounds[1], step_size)
        last_ == ceil_div(bounds[2], step_size)
    IN  [k \in 1..(last_ - first + 1) |->
            [value |-> (first + k - 1) * step_size, step_size |-> step_size]]

\* fill_marks_between: the marks i * step_size for i in first..last (half-open).
fill_marks_between(step_size, bounds) ==
    LET first == ceil_div(bounds[1], step_size)
        last_ == ceil_div(bounds[2], step_size)
    IN  [k \in 1..(last_ - first) |->
            [value |-> (first + k - 1) * step_size, step_size |-> step_size]]

\* The local `steps` of generate_marks after its three fill_marks_between calls.
candidate_marks(step_sizes, bounds) ==
    fill_marks_between(step_sizes[1], bounds)
        \o fill_marks_between(step_sizes[2], bounds)
        \o fill_marks_between(step_sizes[3], bounds)

\* cmp_f64(a, b) = Less, on finite values.
cmp_f64_less(a, b) == a < b

\* Insert m into the sorted sequence s after every element not greater than it.
RECURSIVE insert_sorted(_, _)
insert_sorted(s, m) ==
    IF s = <<>> THEN <<m>>
    ELSE IF cmp_f64_less(m.value, s[Len(s)].value)
         THEN Append(insert_sorted(SubSeq(s, 1, Len(s) - 1), m), s[Len(s)])
         ELSE Append(s, m)

\* No sort: the candidates stay in the order they were generated in.
in_generated_order(s) == s

\* steps.sort_by(cmp_f64 on value): a stable sort.
RECURSIVE sort_by_value(_)
sort_by_value(s) ==
    IF s = <<>> THEN <<>>
    ELSE insert_sorted(sort_by_value(SubSeq(s, 1, Len(s) - 1)), s[Len(s)])

min3(t) ==
    LET m == IF t[1] < t[2] THEN t[1] ELSE t[2]
    IN  IF t[3] < m THEN t[3] ELSE m

\* (a - b).abs() < eps with eps = 0.1 * min_step.
within_eps(a, b, min_step) == 10 * Abs(a - b) < min_step

\* One step of the deduplication loop that never replaces the kept mark.
dedup_step_keep_first(deduplicated, step, min_step) ==
    IF deduplicated # <<>>
       /\ within_eps(deduplicated[Len(deduplicated)].value, step.value, min_step)
    THEN deduplicated
    ELSE Append(deduplicated, step)

\* One iteration of the deduplication loop of generate_marks.
dedup_step(deduplicated, step, min_step) ==
    IF deduplicated # <<>>
       /\ within_eps(deduplicated[Len(deduplicated)].value, step.value, min_step)
    THEN IF deduplicated[Len(deduplicated)].step_size < step.step_size
         THEN [deduplicated EXCEPT ![Len(deduplicated)] = step]
         ELSE deduplicated
    ELSE Append(deduplicated, step)

RECURSIVE dedup(_, _)
dedup(steps, min_step) ==
    IF steps = <<>> THEN <<>>
    ELSE dedup_step(dedup(SubSeq(steps, 1, Len(steps) - 1), min_step),
                    steps[Len(steps)], min_step)

generate_marks(step_sizes, bounds) ==
    dedup(sort_by_value(candidate_marks(step_sizes, bounds)), min3(step_sizes))

\* base.powi(e), for e >= 0.
RECURSIVE powi(_, _)
powi(base, e) == IF e = 0 THEN 1 ELSE base * powi(base, e - 1)

\* The exact ceiling of the base-`base` logarithm of value >= 1: the least
\* e >= 0 with base^e >= value.
RECURSIVE ceil_log_from(_, _, _)
ceil_log_from(value, base, e) ==
    IF powi(base, e) >= value THEN e ELSE ceil_log_from(value, base, e + 1)

\* The inputs <<base, value>>, among bases 2, 3, 5 and 10 and values up to 400,
\* at which the f64 quotient value.ln() / base.ln() of f64::log is above the
\* exact logarithm by one unit in the last place: ln(125) / ln(5) is
\* 3.0000000000000004.
LogQuotientRoundsUp == {<<5, 125>>}

\* value.abs().log(base).ceil() as i32, for an integer value /= 0.
ceil_of_log(value, base) ==
    ceil_log_from(Abs(value), base, 0)
        + (IF <<base, Abs(value)>> \in LogQuotientRoundsUp THEN 1 ELSE 0)

\* next_power
next_power(value, base) == powi(base, ceil_of_log(value, base))

\* The closure returned by log_grid_spacer(log_base), applied to
\* input = [bounds, base_step_size].  A base_step_size is a whole number of
\* units, so its absolute value is below f64::EPSILON only if it is 0.
log_grid_spacer(log_base, input) ==
    IF input.base_step_size = 0 THEN <<>>
    ELSE LET smallest_visible_unit == next_power(input.base_step_size, log_base)
         IN  generate_marks(<<smallest_visible_unit,
                              smallest_visible_unit * log_base,
                              smallest_visible_unit * log_base * log_base>>,
                            input.bounds)

----------------------------------------------------------------------------
(* Colours, heatmap palettes and colormaps.  A Color32 is <<r, g, b, a>> with
   every channel in 0..255.  Sequences are 1-based: element i of a Rust
   vector is element i + 1 here. *)

TRANSPARENT == <<0, 0, 0, 0>>

from_rgb(r, g, b) == <<r, g, b, 255>>

BASE_COLORS ==
    <<from_rgb(48, 18, 59), from_rgb(35, 106, 141), from_rgb(30, 160, 140),
      from_rgb(88, 200, 98), from_rgb(164, 223, 39), from_rgb(228, 223, 14),
      from_rgb(250, 187, 13), from_rgb(246, 135, 8), from_rgb(213, 68, 2),
      from_rgb(122, 4, 2)>>

DEFAULT_RESOLUTION == 128

\* The value a saturating cast of +inf to usize gives; it stands for
\* usize::MAX and is above the length of every vector.
USIZE_MAX == 2147483647

\* f64::round of the quotient n / d, for n >= 0 and d > 0: halves go up.
round_quot(n, d) == (2 * n + d) \div (2 * d)

\* Entry i (0-based) of the gradient, for at least two base colours and a
\* resolution of at least two.  base_index_float is num / d and
\* gradient_level is level / d.
gradient_color(base_colors, resolution, i) ==
    IF i = resolution - 1 THEN base_colors[Len(base_colors)]
    ELSE LET d == resolution - 1
             num == i * (Len(base_colors) - 1)
             base_index == num \div d
             start_color == base_colors[base_index + 1]
             end_color == base_colors[base_index + 2]
             level == num - base_index * d
             channel(k) ==
                 round_quot(start_color[k] * d + (end_color[k] - start_color[k]) * level, d)
         IN  from_rgb(channel(1), channel(2), channel(3))

\* A gradient that falls back to opaque black when there is no base colour.
linear_gradient_black_when_empty(base_colors, resolution) ==
    IF Len(base_colors) = 0 \/ resolution = 0
    THEN [i \in 1..resolution |-> from_rgb(0, 0, 0)]
    ELSE IF Len(base_colors) = 1 \/ resolution = 1
    THEN [i \in 1..resolution |-> base_colors[1]]
    ELSE [i \in 1..resolution |-> gradient_color(base_colors, resolution, i - 1)]

linear_gradient_from_base_colors(base_colors, resolution) ==
    IF Len(base_colors) = 0 \/ resolution = 0
    THEN [i \in 1..resolution |-> TRANSPARENT]
    ELSE IF Len(base_colors) = 1 \/ resolution = 1
    THEN [i \in 1..resolution |-> base_colors[1]]
    ELSE [i \in 1..resolution |-> gradient_color(base_colors, resolution, i - 1)]

\* The folds of Heatmap::new over the values.
RECURSIVE fold_min(_, _)
fold_min(acc, values) ==
    IF values = <<>> THEN acc ELSE fold_min(f64_min(acc, Head(values)), Tail(values))

RECURSIVE fold_max(_, _)
fold_max(acc, values) ==
    IF values = <<>> THEN acc ELSE fold_max(f64_max(acc, Head(values)), Tail(values))

Heatmap_empty ==
    [values |-> <<>>, cols |-> 0, rows |-> 0, min |-> ZERO, max |-> ZERO,
     custom_mapping |-> None, resolution |-> DEFAULT_RESOLUTION,
     palette |-> linear_gradient_from_base_colors(BASE_COLORS, DEFAULT_RESOLUTION)]

Heatmap_new(values, cols) ==
    IF cols = 0 \/ values = <<>> \/ Len(values) % cols # 0 THEN Heatmap_empty
    ELSE [values |-> values, cols |-> cols, rows |-> Len(values) \div cols,
          min |-> fold_min(F64_MAX, values), max |-> fold_max(F64_MIN, values),
          custom_mapping |-> None, resolution |-> DEFAULT_RESOLUTION,
          palette |-> linear_gradient_from_base_colors(BASE_COLORS, DEFAULT_RESOLUTION)]

Heatmap_resolution(h, resolution) ==
    [h EXCEPT !.resolution = resolution,
              !.palette = linear_gradient_from_base_colors(BASE_COLORS, resolution)]

Heatmap_palette(h, base_colors) ==
    [h EXCEPT !.palette = linear_gradient_from_base_colors(base_colors, h.resolution)]

\* assert!(min < max) panics; NaN compares false.
Heatmap_range(h, min, max) ==
    IF Lt(min, max) THEN [h EXCEPT !.min = min, !.max = max] ELSE Panic

\* A custom mapping is given as <<colour of negative values, colour of the
\* other values>>.
Heatmap_custom_mapping(h, mapping) == [h EXCEPT !.custom_mapping = Some(mapping)]

\* (v_rel * k as f64).round() as usize for a usize k: the cast saturates and
\* sends NaN to 0.  The product of a finite v_rel is formed exactly.
round_as_usize(v_rel, k) ==
    IF is_nan(v_rel) THEN 0
    ELSE IF ~is_finite(v_rel)
    THEN IF k = 0 \/ v_rel[1] < 0 THEN 0 ELSE USIZE_MAX
    ELSE IF v_rel[1] <= 0 THEN 0
    ELSE round_quot(v_rel[1] * k, v_rel[2])

palette_index(h, v) ==
    LET v_rel == Div(Sub(v, h.min), Sub(h.max, h.min))
    IN  round_as_usize(v_rel, Len(h.palette) - 1)

\* The fill colour tile_view_info computes for tile index (0-based) of a
\* heatmap that is not highlighted: Some(colour), or Panic.  On an empty
\* palette, palette.len() - 1 overflows (a panic with overflow checks) or
\* wraps, and then the index into the empty palette is out of bounds.
tile_color(h, index) ==
    LET v == h.values[index + 1]
    IN  IF h.custom_mapping.some THEN Some(h.custom_mapping.value[IF Lt(v, ZERO) THEN 1 ELSE 2])
        ELSE IF Len(h.palette) = 0 THEN Panic
        ELSE IF palette_index(h, v) < Len(h.palette)
        THEN Some(h.palette[palette_index(h, v) + 1])
        ELSE Panic

\* push_shapes: the fill colours of all tiles in index order, or Panic.
push_shapes(h) ==
    IF \E i \in 1..Len(h.values) : tile_color(h, i - 1) = Panic THEN Panic
    ELSE [i \in 1..Len(h.values) |-> tile_color(h, i - 1).value]

\* srgb_interpolate: every channel is (c0 * (1 - t) + c1 * t).round() as u8
\* with t clamped to [0, 1]; a NaN t gives NaN channels, which the cast sends
\* to 0.
srgb_interpolate(c0, c1, t) ==
    IF is_nan(t) THEN <<0, 0, 0, 0>>
    ELSE LET tc == f64_clamp(t, ZERO, ONE)
         IN  [k \in 1..4 |-> round_quot(c0[k] * (tc[2] - tc[1]) + c1[k] * tc[1], tc[2])]

ColormapData_new_uniform(colors) ==
    IF colors = <<>> THEN [kind |-> "Uniform", colors |-> <<TRANSPARENT, TRANSPARENT>>]
    ELSE IF Len(colors) = 1 THEN [kind |-> "Uniform", colors |-> <<colors[1], colors[1]>>]
    ELSE [kind |-> "Uniform", colors |-> colors]

\* keypoints.sort_by(total_cmp on the position): a stable sort of
\* <<position, colour>> pairs; the positions are not NaN.
insert_by_position(k, sorted) ==
    LET before == SelectSeq(sorted, LAMBDA e : Le(e[1], k[1]))
        after == SelectSeq(sorted, LAMBDA e : ~Le(e[1], k[1]))
    IN  before \o <<k>> \o after

RECURSIVE sort_by_position(_)
sort_by_position(keypoints) ==
    IF keypoints = <<>> THEN <<>>
    ELSE insert_by_position(keypoints[Len(keypoints)],
                            sort_by_position(SubSeq(keypoints, 1, Len(keypoints) - 1)))

ColormapData_new_nonuniform(keypoints) ==
    IF keypoints = <<>>
    THEN [kind |-> "Nonuniform", keypoints |-> <<<<ZERO, TRANSPARENT>>, <<ONE, TRANSPARENT>>>>]
    ELSE IF Len(keypoints) = 1
    THEN [kind |-> "Nonuniform",
          keypoints |-> <<<<ZERO, keypoints[1][2]>>, <<ONE, keypoints[1][2]>>>>]
    ELSE [kind |-> "Nonuniform", keypoints |-> sort_by_position(keypoints)]

\* floor and ceil of a finite f32 that is not negative, as usize.
floor_as_usize(x) == x[1] \div x[2]
ceil_as_usize(x) == (x[1] + x[2] - 1) \div x[2]

\* A NaN t stays NaN through clamp and the product, and both casts give 0.
UniformKeypoints_get(u, t) ==
    LET n == Len(u.colors)
    IN  IF n = 0 THEN TRANSPARENT
        ELSE IF n = 1 THEN u.colors[1]
        ELSE IF is_nan(t) THEN u.colors[1]
        ELSE LET scaled_t == Mul(f64_clamp(t, ZERO, ONE), R(n - 1))
                 index0 == floor_as_usize(scaled_t)
                 index1 == ceil_as_usize(scaled_t)
             IN  IF index0 = index1 THEN u.colors[index0 + 1]
                 ELSE srgb_interpolate(u.colors[index0 + 1], u.colors[index1 + 1],
                                       Sub(scaled_t, R(index0)))

\* The first keypoint from position i on (1-based) whose position is at or
\* above t, interpolated with the keypoint before it; the last colour if
\* there is none.
RECURSIVE interpolate_from(_, _, _)
interpolate_from(keypoints, t, i) ==
    IF i > Len(keypoints) THEN keypoints[Len(keypoints)][2]
    ELSE IF Le(t, keypoints[i][1])
    THEN srgb_interpolate(keypoints[i - 1][2], keypoints[i][2],
                          Div(Sub(t, keypoints[i - 1][1]),
                              Sub(keypoints[i][1], keypoints[i - 1][1])))
    ELSE interpolate_from(keypoints, t, i + 1)

NonuniformKeypoints_get(nu, t) ==
    IF nu.keypoints = <<>> THEN TRANSPARENT
    ELSE LET first == nu.keypoints[1]
             last_keypoint == nu.keypoints[Len(nu.keypoints)]
         IN  IF Le(t, first[1]) THEN first[2]
             ELSE IF Le(last_keypoint[1], t) THEN last_keypoint[2]
             ELSE interpolate_from(nu.keypoints, t, 2)

\* Colormap::get with ColorInterpolation::SRGB.
Colormap_get(data, t) ==
    IF data.kind = "Uniform" THEN UniformKeypoints_get(data, t)
    ELSE NonuniformKeypoints_get(data, t)

----------------------------------------------------------------------------
(* Pins (overlays/pin.rs, items/tooltip.rs).  The stored pin list is a
   sequence of PinnedPoints [hits, plot_x]; the keys pressed in a frame are a
   subset of {"P", "U", "Delete"}. *)

\* Vec::pop: nothing happens on an empty vector.
pop(v) == IF v = <<>> THEN <<>> ELSE SubSeq(v, 1, Len(v) - 1)

PinnedPoints(hits, transform, pointer_screen) ==
    [hits |-> hits, plot_x |-> value_from_position(transform, pointer_screen)[1]]

\* The three key tests of the input closure, in their order; may_pin is the
\* condition under which P pushes new_pin.
after_keys(pins, keys, may_pin, new_pin) ==
    LET pushed == IF "P" \in keys /\ may_pin THEN Append(pins, new_pin) ELSE pins
        popped == IF "U" \in keys THEN pop(pushed) ELSE pushed
    IN  IF "Delete" \in keys THEN <<>> ELSE popped

\* show_pins_with_hits that handles the keys whether the plot is hovered or not.
show_pins_with_hits_unhovered(pins, hits, transform, hovered, keys, pointer) ==
    after_keys(pins, keys, hits # <<>> /\ pointer # None,
               PinnedPoints(hits, transform, IF pointer = None THEN <<ZERO, ZERO>> ELSE pointer.value))

\* PlotUi::show_pins_with_hits: the pin list stored after the call.
show_pins_with_hits(pins, hits, transform, hovered, keys, pointer) ==
    IF ~hovered THEN pins
    ELSE after_keys(pins, keys, hits # <<>> /\ pointer # None,
                    PinnedPoints(hits, transform,
                                 IF pointer = None THEN <<ZERO, ZERO>> ELSE pointer.value))

\* PlotUi::show_tooltip_across_series_with, without highlighting: the pin
\* list stored after the call.  It returns before the keys are looked at when
\* the pointer is unknown or the band is empty.
show_tooltip_across_series_with(pins, items, transform, radius_px, hovered, keys, pointer) ==
    IF pointer = None THEN pins
    ELSE LET pointer_screen == pointer.value
             frame == transform.frame
             band_min_x == f64_max(Sub(pointer_screen[1], radius_px), frame.left)
             band_max_x == f64_min(Add(pointer_screen[1], radius_px), frame.right)
             hits == tooltip_hits(items, transform, pointer, radius_px)
         IN  IF Le(band_max_x, band_min_x) THEN pins
             ELSE IF ~hovered THEN pins
             ELSE IF hits = <<>> THEN after_keys(pins, keys \ {"P"}, FALSE, None)
             ELSE after_keys(pins, keys, TRUE,
                             PinnedPoints(sort_by_name(hits), transform, pointer_screen))

\* init_pins: the stored list is replaced by the given one.
init_pins(pins, given) == given

----------------------------------------------------------------------------
(* State *)

VARIABLES
    tf,      \* the PlotTransform under test
    ctor,    \* the arguments its constructor was called with
    last,    \* the last call made on tf: its name, arguments and the bounds before it
    nops,    \* number of calls made on tf
    pb,      \* a PlotBounds value mutated directly
    pblast,  \* the last call made on pb
    pbn,     \* number of calls made on pb
    gin,     \* the grid spacer's input: [step_sizes, bounds]
    gmarks,  \* the marks generate_marks returned
    gdone,   \* whether generate_marks has been called on gin
    link_of,             \* the link id each chart is configured with (0: none)
    bounds_link_groups,  \* BoundsLinkGroups: link id -> LinkedBounds
    cursor_link_groups,  \* CursorLinkGroups: link id -> list of PlotFrameCursors
    running,             \* the chart whose frame is in progress (0: none)
    shown,               \* the charts that finished their frame in this pass
    npass,               \* the number of the current frame pass
    writes,              \* per link id, the writes made so far in this pass, oldest first
    lread,               \* the last read of the link-group maps
    hin,                 \* the input of a hit test: items, transform, pointer, radius
    hout,                \* the hit test made on hin and what it returned
    heatmap,             \* the Heatmap under construction (Panic after a failed assertion)
    hcalls,              \* the builder calls made on heatmap, oldest first
    painted,             \* what push_shapes produced from heatmap, once called
    colormap,            \* a Colormap: the input it was built from and its data
    got,                 \* the last Colormap::get: its t and the colour returned
    pins,                \* the pin list stored in egui temp memory for the plot
    pframe,              \* the last frame step: its handler, its input, the pins before it
    nframes              \* number of frame steps taken

tvars == <<tf, ctor, last, nops>>
bvars == <<pb, pblast, pbn>>
gvars == <<gin, gmarks, gdone>>
lvars == <<link_of, bounds_link_groups, cursor_link_groups, running, shown, npass, writes, lread>>
hvars == <<hin, hout>>
cvars == <<heatmap, hcalls, painted, colormap, got>>
pvars == <<pins, pframe, nframes>>
vars == <<tf, ctor, last, nops, pb, pblast, pbn, gin, gmarks, gdone,
          link_of, bounds_link_groups, cursor_link_groups, running, shown, npass, writes, lread,
          hin, hout, heatmap, hcalls, painted, colormap, got, pins, pframe, nframes>>

BOOL2 == {<<FALSE, FALSE>>, <<TRUE, FALSE>>, <<FALSE, TRUE>>, <<TRUE, TRUE>>}

\* Screen rectangles: two proper frames.
Frames ==
    {[left |-> R(0), right |-> R(4), top |-> R(0), bottom |-> R(2)],
     [left |-> R(1), right |-> R(2), top |-> R(1), bottom |-> R(4)]}

\* Bounds handed to the constructor: valid; thin x beside a valid y; the
\* NOTHING sentinel; an x range whose width overflows; a thin x at the top of
\* the f64 range beside an inverted y; NaN beside a thin y.
CtorInputs ==
    {from_min_max(<<R(0), R(-1)>>, <<R(4), R(2)>>),
     from_min_max(<<R(2), R(0)>>, <<R(2), R(4)>>),
     NOTHING,
     from_min_max(<<F64_MIN, R(0)>>, <<F64_MAX, R(4)>>),
     from_min_max(<<F64_MAX, R(3)>>, <<F64_MAX, R(1)>>),
     from_min_max(<<NaN, R(2)>>, <<R(0), R(2)>>)}

\* Screen-space drags.
Deltas == {<<R(1), R(0)>>, <<R(-2), R(1)>>, <<R(F64Max), R(F64Max)>>}

\* Zoom factors (Vec2), including the degenerate zero and negative ones.
ZoomFactors == {<<ONE, ONE>>, <<TWO, TWO>>, <<HALF, ONE>>, <<ZERO, ONE>>, <<R(-1), ONE>>}

\* Screen positions used as zoom centres.
Centers(f) == {<<f.left, f.top>>, <<Add(f.left, ONE), Add(f.top, ONE)>>}

\* Target aspects, including the degenerate zero and negative ones.
Aspects == {ONE, TWO, HALF, ZERO, R(-1)}

Idle == [op |-> "none", prev |-> NOTHING, a |-> ZERO, v |-> <<ZERO, ZERO>>, c |-> <<ZERO, ZERO>>, axis |-> "-"]

BoundsIdle == pb = NOTHING /\ pblast = Idle /\ pbn = 0
GridIdle == gin = [step_sizes |-> <<1, 1, 1>>, bounds |-> <<0, 0>>] /\ gmarks = <<>> /\ gdone = FALSE

\* Link groups: charts, link ids, frame passes.
NumCharts == 3
NumLinks == 2
MaxPasses == 2
Charts == 1..NumCharts
LinkIds == 1..NumLinks
NoEntry == [none |-> TRUE]
NoRead == [op |-> "none"]

LinkIdle ==
    /\ link_of = [c \in Charts |-> 0]
    /\ bounds_link_groups = [l \in LinkIds |-> NoEntry]
    /\ cursor_link_groups = [l \in LinkIds |-> <<>>]
    /\ running = 0
    /\ shown = {}
    /\ npass = 0
    /\ writes = [l \in LinkIds |-> <<>>]
    /\ lread = NoRead

NoCall == [op |-> "none", result |-> None]
HitIdle ==
    /\ hin = [kind |-> "none", items |-> <<>>, transform |-> None, pointer |-> None, radius_px |-> ZERO]
    /\ hout = NoCall

NoColormap == [input |-> [kind |-> "none", given |-> <<>>], data |-> None]
ColorIdle ==
    /\ heatmap = None
    /\ hcalls = <<>>
    /\ painted = None
    /\ colormap = NoColormap
    /\ got = None

NoFrame == [handler |-> "none"]
PinIdle ==
    /\ pins = <<>>
    /\ pframe = NoFrame
    /\ nframes = 0

TransformIdle ==
    /\ tf = [frame |-> [left |-> ZERO, right |-> ZERO, top |-> ZERO, bottom |-> ZERO],
             bounds |-> NOTHING, centered |-> <<FALSE, FALSE>>,
             inverted_axis |-> <<FALSE, FALSE>>]
    /\ ctor = NOTHING
    /\ last = Idle
    /\ nops = 0

----------------------------------------------------------------------------
(* The transform: construction, then translate / zoom / aspect calls. *)

InitTransform ==
    /\ \E f \in Frames, b \in CtorInputs, ca \in BOOL2, ia \in BOOL2 :
          /\ ctor = b
          /\ tf = new_with_invert_axis(f, b, ca, ia)
    /\ last = [Idle EXCEPT !.op = "new"]
    /\ nops = 0

TranslateBounds ==
    /\ nops < MaxOps
    /\ \E d \in Deltas :
          /\ tf' = translate_bounds(tf, d)
          /\ last' = [Idle EXCEPT !.op = "translate_bounds", !.prev = tf.bounds, !.v = d]
    /\ nops' = nops + 1
    /\ UNCHANGED <<ctor, bvars, gvars, lvars, hvars, cvars, pvars>>

Zoom ==
    /\ nops < MaxOps
    /\ \E zf \in ZoomFactors, c \in Centers(tf.frame) :
          /\ tf' = PlotTransform_zoom(tf, zf, c)
          /\ last' = [Idle EXCEPT !.op = "zoom", !.prev = tf.bounds, !.v = zf, !.c = c]
    /\ nops' = nops + 1
    /\ UNCHANGED <<ctor, bvars, gvars, lvars, hvars, cvars, pvars>>

SetAspectByExpanding ==
    /\ nops < MaxOps
    /\ \E a \in Aspects :
          /\ tf' = set_aspect_by_expanding(tf, a)
          /\ last' = [Idle EXCEPT !.op = "set_aspect_by_expanding", !.prev = tf.bounds, !.a = a]
    /\ nops' = nops + 1
    /\ UNCHANGED <<ctor, bvars, gvars, lvars, hvars, cvars, pvars>>

SetAspectByChangingAxis ==
    /\ nops < MaxOps
    /\ \E a \in Aspects, axis \in {"X", "Y"} :
          /\ tf' = set_aspect_by_changing_axis(tf, a, axis)
          /\ last' = [Idle EXCEPT !.op = "set_aspect_by_changing_axis", !.prev = tf.bounds,
                                  !.a = a, !.axis = axis]
    /\ nops' = nops + 1
    /\ UNCHANGED <<ctor, bvars, gvars, lvars, hvars, cvars, pvars>>

Init == InitTransform /\ BoundsIdle /\ GridIdle /\ LinkIdle /\ HitIdle /\ ColorIdle /\ PinIdle

Next == TranslateBounds \/ Zoom \/ SetAspectByExpanding \/ SetAspectByChangingAxis

Spec == Init /\ [][Next]_vars

----------------------------------------------------------------------------
(* A PlotBounds value mutated directly through its public methods. *)

\* One axis of a PlotBounds, <<min, max>>: proper, thin, inverted,
\* fractional, the whole f64 range, and the NOTHING sentinel.
AxisRanges ==
    {<<R(0), R(4)>>, <<R(2), R(2)>>, <<R(3), R(1)>>, <<R(-1), HALF>>,
     <<F64_MIN, F64_MAX>>, <<INFINITY, NEG_INFINITY>>}

Pads == {ONE, R(-1), HALF, R(-3), INFINITY, NaN, R(F64Max)}

DataDeltas == {<<ONE, R(-2)>>, <<R(F64Max), ZERO>>, <<NaN, ONE>>}

DataCenters == {<<ZERO, ZERO>>, <<ONE, TWO>>, <<R(-3), R(5)>>}

InitBounds ==
    /\ \E bx \in AxisRanges, by \in AxisRanges :
          pb = from_min_max(<<bx[1], by[1]>>, <<bx[2], by[2]>>)
    /\ pblast = [Idle EXCEPT !.op = "from_min_max"]
    /\ pbn = 0

BoundsExpandX ==
    /\ pbn < MaxOps
    /\ \E pad \in Pads :
          /\ pb' = expand_x(pb, pad)
          /\ pblast' = [Idle EXCEPT !.op = "expand_x", !.prev = pb, !.a = pad]
    /\ pbn' = pbn + 1
    /\ UNCHANGED <<tvars, gvars, lvars, hvars, cvars, pvars>>

BoundsExpandY ==
    /\ pbn < MaxOps
    /\ \E pad \in Pads :
          /\ pb' = expand_y(pb, pad)
          /\ pblast' = [Idle EXCEPT !.op = "expand_y", !.prev = pb, !.a = pad]
    /\ pbn' = pbn + 1
    /\ UNCHANGED <<tvars, gvars, lvars, hvars, cvars, pvars>>

BoundsTranslate ==
    /\ pbn < MaxOps
    /\ \E d \in DataDeltas :
          /\ pb' = translate(pb, d)
          /\ pblast' = [Idle EXCEPT !.op = "translate", !.prev = pb, !.v = d]
    /\ pbn' = pbn + 1
    /\ UNCHANGED <<tvars, gvars, lvars, hvars, cvars, pvars>>

BoundsZoom ==
    /\ pbn < MaxOps
    /\ \E zf \in ZoomFactors, c \in DataCenters :
          /\ pb' = PlotBounds_zoom(pb, zf, c)
          /\ pblast' = [Idle EXCEPT !.op = "zoom", !.prev = pb, !.v = zf, !.c = c]
    /\ pbn' = pbn + 1
    /\ UNCHANGED <<tvars, gvars, lvars, hvars, cvars, pvars>>

NextBounds == BoundsExpandX \/ BoundsExpandY \/ BoundsTranslate \/ BoundsZoom

InitBoundsOnly == InitBounds /\ TransformIdle /\ GridIdle /\ LinkIdle /\ HitIdle /\ ColorIdle /\ PinIdle

SpecBounds == InitBoundsOnly /\ [][NextBounds]_vars

----------------------------------------------------------------------------
(* A transform built by the constructor from any input bounds, then given  *)
(* the same target aspect again and again.                                 *)

\* Number of repeated set_aspect_by_expanding calls.
MaxCalls == 3

\* One axis of the bounds handed to the constructor: the ranges above, a NaN
\* end, and a thin range at the top of the f64 range.
CtorAxisRanges == AxisRanges \cup {<<NaN, R(0)>>, <<F64_MAX, F64_MAX>>}

\* Target aspects: the ones above, one more ratio, and the largest f64.
TargetAspects == Aspects \cup {R(3), F64_MAX}

InitAspect ==
    /\ \E f \in Frames, bx \in CtorAxisRanges, by \in CtorAxisRanges,
          ca \in BOOL2, ia \in BOOL2, a \in TargetAspects :
          /\ ctor = from_min_max(<<bx[1], by[1]>>, <<bx[2], by[2]>>)
          /\ tf = new_with_invert_axis(f, ctor, ca, ia)
          /\ last = [Idle EXCEPT !.op = "new", !.a = a]
    /\ nops = 0

\* One more call with the same target aspect (kept in last.a) on the same frame.
RepeatSetAspect ==
    /\ nops < MaxCalls
    /\ tf' = set_aspect_by_expanding(tf, last.a)
    /\ last' = [Idle EXCEPT !.op = "set_aspect_by_expanding", !.prev = tf.bounds, !.a = last.a]
    /\ nops' = nops + 1
    /\ UNCHANGED <<ctor, bvars, gvars, lvars, hvars, cvars, pvars>>

NextAspect == RepeatSetAspect

InitAspectOnly == InitAspect /\ BoundsIdle /\ GridIdle /\ LinkIdle /\ HitIdle /\ ColorIdle /\ PinIdle

SpecAspect == InitAspectOnly /\ [][NextAspect]_vars

----------------------------------------------------------------------------
(* A transform built from valid bounds, whose bounds are then replaced     *)
(* through set_bounds and panned through translate_bounds.                 *)

ValidCtorInputs == {b \in CtorInputs : is_valid(b)}

InitPan ==
    /\ \E f \in Frames, b \in ValidCtorInputs, ca \in BOOL2, ia \in BOOL2 :
          /\ ctor = b
          /\ tf = new_with_invert_axis(f, b, ca, ia)
    /\ last = [Idle EXCEPT !.op = "new"]
    /\ nops = 0

SetBounds ==
    /\ nops < MaxOps
    /\ \E b \in CtorInputs :
          /\ tf' = set_bounds(tf, b)
          /\ last' = [Idle EXCEPT !.op = "set_bounds", !.prev = tf.bounds]
    /\ nops' = nops + 1
    /\ UNCHANGED <<ctor, bvars, gvars, lvars, hvars, cvars, pvars>>

NextPan == SetBounds \/ TranslateBounds

InitPanOnly == InitPan /\ BoundsIdle /\ GridIdle /\ LinkIdle /\ HitIdle /\ ColorIdle /\ PinIdle

SpecPan == InitPanOnly /\ [][NextPan]_vars

----------------------------------------------------------------------------
(* The aspect setters called once on a new transform, with targets at and  *)
(* around the current aspect.                                              *)

\* Half of the tolerance and twice the tolerance.
half_epsilon == <<1, 200000>>
twice_epsilon == <<1, 50000>>

\* Targets: the fixed ones, the current aspect, and values beside it nearer
\* and farther than the tolerance.
NearAspects(t) ==
    Aspects \cup
    (IF is_finite(aspect(t))
     THEN {aspect(t), Add(aspect(t), half_epsilon), Sub(aspect(t), half_epsilon),
           Add(aspect(t), twice_epsilon), Sub(aspect(t), twice_epsilon)}
     ELSE {})

SetAspectByExpandingNear ==
    /\ nops = 0
    /\ \E a \in NearAspects(tf) :
          /\ tf' = set_aspect_by_expanding(tf, a)
          /\ last' = [Idle EXCEPT !.op = "set_aspect_by_expanding", !.prev = tf.bounds, !.a = a]
    /\ nops' = nops + 1
    /\ UNCHANGED <<ctor, bvars, gvars, lvars, hvars, cvars, pvars>>

SetAspectByChangingAxisNear ==
    /\ nops = 0
    /\ \E a \in NearAspects(tf), axis \in {"X", "Y"} :
          /\ tf' = set_aspect_by_changing_axis(tf, a, axis)
          /\ last' = [Idle EXCEPT !.op = "set_aspect_by_changing_axis", !.prev = tf.bounds,
                                  !.a = a, !.axis = axis]
    /\ nops' = nops + 1
    /\ UNCHANGED <<ctor, bvars, gvars, lvars, hvars, cvars, pvars>>

NextSetAspect == SetAspectByExpandingNear \/ SetAspectByChangingAxisNear

InitSetAspectOnly == InitTransform /\ BoundsIdle /\ GridIdle /\ LinkIdle /\ HitIdle /\ ColorIdle /\ PinIdle

SpecSetAspect == InitSetAspectOnly /\ [][NextSetAspect]_vars

----------------------------------------------------------------------------
(* One zoom of a PlotBounds value and one zoom of a transform, with the    *)
(* unit factor among the factors.                                          *)

UnitZoomFactors == {<<ONE, ONE>>, <<TWO, TWO>>, <<HALF, ONE>>}

\* Data-space centres: the ones above and one at the top of the f64 range.
FarDataCenters == DataCenters \cup {<<F64_MAX, ZERO>>}

BoundsZoomOnce ==
    /\ pbn = 0
    /\ \E zf \in UnitZoomFactors, c \in FarDataCenters :
          /\ pb' = PlotBounds_zoom(pb, zf, c)
          /\ pblast' = [Idle EXCEPT !.op = "zoom", !.prev = pb, !.v = zf, !.c = c]
    /\ pbn' = pbn + 1
    /\ UNCHANGED <<tvars, gvars, lvars, hvars, cvars, pvars>>

ZoomOnce ==
    /\ nops = 0
    /\ \E zf \in UnitZoomFactors, c \in Centers(tf.frame) :
          /\ tf' = PlotTransform_zoom(tf, zf, c)
          /\ last' = [Idle EXCEPT !.op = "zoom", !.prev = tf.bounds, !.v = zf, !.c = c]
    /\ nops' = nops + 1
    /\ UNCHANGED <<ctor, bvars, gvars, lvars, hvars, cvars, pvars>>

NextZoom == BoundsZoomOnce \/ ZoomOnce

InitZoomOnly == InitPan /\ InitBounds /\ GridIdle /\ LinkIdle /\ HitIdle /\ ColorIdle /\ PinIdle

SpecZoom == InitZoomOnly /\ [][NextZoom]_vars

----------------------------------------------------------------------------
(* The grid spacer called on one input. *)

\* Small step sizes and bound values, in units.
MaxSmallStep == 4
GridLo == 0 - 3
GridHi == 6

Injections == {f \in [1..3 -> 1..3] : f[1] # f[2] /\ f[1] # f[3] /\ f[2] # f[3]}
Orderings(t) == {<<t[f[1]], t[f[2]], t[f[3]]>> : f \in Injections}

\* The input of test_generate_marks, in units of 0.001.
TestInput == [step_sizes |-> <<10, 100, 1000>>, bounds |-> <<2855, 3015>>]

\* Inputs: every triple of small steps over every small range min < max; step sizes
\* whose multiples come close without coinciding, in every order; the test.
GridInputs ==
    [step_sizes : [1..3 -> 1..MaxSmallStep],
     bounds : {b \in (GridLo..GridHi) \X (GridLo..GridHi) : b[1] < b[2]}]
    \cup [step_sizes : Orderings(<<20, 21, 22>>) \cup Orderings(<<20, 21, 60>>),
          bounds : {<<15, 25>>, <<-45, -15>>, <<0, 60>>}]
    \cup [step_sizes : Orderings(<<100, 142, 247>>), bounds : {<<900, 1100>>}]
    \cup {TestInput}

InitGrid ==
    /\ gin \in GridInputs
    /\ gmarks = <<>>
    /\ gdone = FALSE

GenerateMarks ==
    /\ ~gdone
    /\ gmarks' = generate_marks(gin.step_sizes, gin.bounds)
    /\ gdone' = TRUE
    /\ UNCHANGED <<gin, tvars, bvars, lvars, hvars, cvars, pvars>>

NextGrid == GenerateMarks

InitGridOnly == InitGrid /\ TransformIdle /\ BoundsIdle /\ LinkIdle /\ HitIdle /\ ColorIdle /\ PinIdle

SpecGrid == InitGridOnly /\ [][NextGrid]_vars

----------------------------------------------------------------------------
(* The logarithmic grid spacer called on one input; gin is                  *)
(* [log_base, bounds, base_step_size].                                      *)

MaxBaseStep == 130
LogBases == {2, 5, 10}

\* The visible range, as multiples of the base step size.
LogRanges == {<<0, 30>>, <<0 - 7, 12>>}

LogGridInputs ==
    {[log_base |-> b, base_step_size |-> st,
      bounds |-> <<r[1] * Abs(st), r[2] * Abs(st)>>] :
        b \in LogBases, st \in (0 - MaxBaseStep)..MaxBaseStep, r \in LogRanges}

InitLogGrid ==
    /\ gin \in LogGridInputs
    /\ gmarks = <<>>
    /\ gdone = FALSE

LogGridSpacer ==
    /\ ~gdone
    /\ gmarks' = log_grid_spacer(gin.log_base,
                                 [bounds |-> gin.bounds, base_step_size |-> gin.base_step_size])
    /\ gdone' = TRUE
    /\ UNCHANGED <<gin, tvars, bvars, lvars, hvars, cvars, pvars>>

NextLogGrid == LogGridSpacer

InitLogGridOnly == InitLogGrid /\ TransformIdle /\ BoundsIdle /\ LinkIdle /\ HitIdle /\ ColorIdle /\ PinIdle

SpecLogGrid == InitLogGridOnly /\ [][NextLogGrid]_vars

----------------------------------------------------------------------------
(* Link groups: charts sharing a link id exchange bounds and cursors through
   two maps. Each chart's frame reads the maps at its start and writes them at
   its end; the charts of a pass run one after another. *)

LinkedBounds(bounds, auto_bounds) == [bounds |-> bounds, auto_bounds |-> auto_bounds]

Vertical(x) == [kind |-> "Vertical", x |-> x]
Horizontal(y) == [kind |-> "Horizontal", y |-> y]

PlotFrameCursors(id, cursors) == [id |-> id, cursors |-> cursors]

\* A write that keeps an entry already in the map.
bounds_link_insert_if_absent(groups, id, linked) ==
    IF groups[id] = NoEntry THEN [groups EXCEPT ![id] = linked] ELSE groups

\* The chart's end-of-frame write of its bounds under its link id.
bounds_link_insert(groups, id, linked) == [groups EXCEPT ![id] = linked]

\* The chart's start-of-frame read of the bounds under its link id.
bounds_link_get(groups, id) == groups[id]

\* The frames of the other charts under the link id, oldest first: the
\* reader's own frame of the pass before is dropped.
cursor_link_frames(groups, id, plot_id) ==
    SelectSeq(groups[id], LAMBDA frame : frame.id # plot_id)

\* The chart's end-of-frame write of its cursors under its link id.
cursor_link_push(groups, id, frame) == [groups EXCEPT ![id] = Append(groups[id], frame)]

\* What a chart may end its frame with.
LinkedValues ==
    {LinkedBounds(from_min_max(<<R(0), R(0)>>, <<R(1), R(1)>>), <<TRUE, TRUE>>),
     LinkedBounds(from_min_max(<<R(0), R(-1)>>, <<R(4), R(2)>>), <<FALSE, FALSE>>)}
CursorValues == {<<>>, <<Vertical(R(1)), Horizontal(R(2))>>}

\* The link id of each chart: every chart on one id, two charts sharing an id
\* beside a chart on another, and a chart with no link id.
LinkConfigs ==
    {cfg \in [Charts -> 0..NumLinks] :
        /\ \E a, b \in Charts : a # b /\ cfg[a] # 0 /\ cfg[a] = cfg[b]
        /\ cfg[1] # 0}

InitLink ==
    /\ link_of \in LinkConfigs
    /\ bounds_link_groups = [l \in LinkIds |-> NoEntry]
    /\ cursor_link_groups = [l \in LinkIds |-> <<>>]
    /\ running = 0
    /\ shown = {}
    /\ npass = 1
    /\ writes = [l \in LinkIds |-> <<>>]
    /\ lread = NoRead

\* A chart starts its frame: it reads the shared state under its link id.
ChartBegin ==
    \E c \in Charts \ shown :
        /\ running = 0
        /\ running' = c
        /\ IF link_of[c] = 0
           THEN UNCHANGED <<cursor_link_groups, lread>>
           ELSE LET id == link_of[c]
                    frames == cursor_link_frames(cursor_link_groups, id, c)
                IN /\ cursor_link_groups' = [cursor_link_groups EXCEPT ![id] = frames]
                   /\ lread' = [op |-> "read", by |-> c, id |-> id,
                                bounds |-> bounds_link_get(bounds_link_groups, id),
                                frames |-> frames,
                                want |-> writes[id]]
        /\ UNCHANGED <<link_of, bounds_link_groups, shown, npass, writes, tvars, bvars, gvars, hvars, cvars, pvars>>

\* The chart ends its frame: it writes its bounds and cursors under its link id.
ChartEnd ==
    /\ running # 0
    /\ \E linked \in LinkedValues, cursors \in CursorValues :
        LET c == running
            id == link_of[c]
            frame == PlotFrameCursors(c, cursors)
        IN IF id = 0
           THEN UNCHANGED <<bounds_link_groups, cursor_link_groups, writes>>
           ELSE /\ bounds_link_groups' = bounds_link_insert(bounds_link_groups, id, linked)
                /\ cursor_link_groups' = cursor_link_push(cursor_link_groups, id, frame)
                /\ writes' = [writes EXCEPT ![id] = Append(writes[id], [linked |-> linked, frame |-> frame])]
    /\ shown' = shown \cup {running}
    /\ running' = 0
    /\ UNCHANGED <<link_of, npass, lread, tvars, bvars, gvars, hvars, cvars, pvars>>

\* The pass ends (charts that were not shown are hidden in it); the next begins.
NextPass ==
    /\ running = 0
    /\ shown # {}
    /\ npass < MaxPasses
    /\ npass' = npass + 1
    /\ shown' = {}
    /\ writes' = [l \in LinkIds |-> <<>>]
    /\ UNCHANGED <<link_of, bounds_link_groups, cursor_link_groups, running, lread, tvars, bvars, gvars, hvars, cvars, pvars>>

NextLink == ChartBegin \/ ChartEnd \/ NextPass

InitLinkOnly == InitLink /\ TransformIdle /\ BoundsIdle /\ GridIdle /\ HitIdle /\ ColorIdle /\ PinIdle

SpecLink == InitLinkOnly /\ [][NextLink]_vars

----------------------------------------------------------------------------
(* Hit testing: one query per behaviour.  The input hin is either one item   *)
(* with a query position (find_closest, on_hover) or the items of a plot     *)
(* with the pointer and the band radius (collect_hits, the tooltip).         *)

MaxPoints == 3
MaxBars == 2
MaxItems == 2

\* Sequences over S of length at most n.
SeqUpTo(S, n) == UNION {[1..k -> S] : k \in 0..n}

\* Transforms of the hit tests: a frame, valid bounds, both inversions.
HitTransforms ==
    {new_with_invert_axis(f, from_min_max(<<R(0), R(-1)>>, <<R(4), R(2)>>), <<FALSE, FALSE>>, ia) :
        f \in Frames, ia \in {<<FALSE, FALSE>>, <<TRUE, TRUE>>}}

\* Plot points: a few values, two of them at the same distance from some
\* queries, and a point with a NaN coordinate.
HitValues == {<<R(0), R(0)>>, <<R(1), R(2)>>, <<R(4), R(-1)>>, <<R(2), HALF>>, <<NaN, R(1)>>}

\* Bars: upwards, downwards, horizontal, and of no width.
HitBars ==
    {[argument |-> R(1), value |-> R(2), bar_width |-> R(1), orientation |-> "Vertical"],
     [argument |-> R(3), value |-> R(-1), bar_width |-> R(2), orientation |-> "Vertical"],
     [argument |-> R(0), value |-> R(3), bar_width |-> R(1), orientation |-> "Horizontal"],
     [argument |-> R(2), value |-> R(1), bar_width |-> R(0), orientation |-> "Vertical"]}

\* Boxes: whiskers wider than the box, and a horizontal one.
HitBoxes ==
    {[argument |-> R(1), box_width |-> R(1), whisker_width |-> R(2),
      lower_whisker |-> R(-1), upper_whisker |-> R(1), orientation |-> "Vertical"],
     [argument |-> R(1), box_width |-> R(2), whisker_width |-> R(0),
      lower_whisker |-> R(2), upper_whisker |-> R(3), orientation |-> "Horizontal"]}

\* Screen positions of the query and of the pointer.
HitPositions == {<<R(1), R(1)>>, <<R(2), R(2)>>, <<R(3), HALF>>, <<R(5), R(5)>>}

Radii == {R(0), R(1)}

PlotItem(name, color, allow_hover, geometry, points, bars) ==
    [name |-> name, color |-> color, allow_hover |-> allow_hover,
     geometry |-> geometry, points |-> points, bars |-> bars]

\* The items queried alone: point items, items without geometry, bar charts.
QueriedItems ==
    {PlotItem(1, "RED", TRUE, "Points", ps, <<>>) : ps \in SeqUpTo(HitValues, MaxPoints)}
    \cup {PlotItem(1, "RED", TRUE, "None", <<>>, <<>>)}
    \cup {PlotItem(1, "RED", TRUE, "Rects", <<>>, bs) : bs \in SeqUpTo(HitBars, MaxBars)}
    \cup {PlotItem(1, "RED", TRUE, "Rects", <<>>, bs) : bs \in SeqUpTo(HitBoxes, MaxBars)}

\* The items of a plot: named 1 or 2, hoverable or not.
BandValues == {<<R(1), R(2)>>, <<R(2), HALF>>}
BandPoints == {ps \in SeqUpTo(BandValues, 2) : Len(ps) < 2 \/ ps[1] # ps[2]}
PlotItems ==
    {PlotItem(n, IF n = 1 THEN "TRANSPARENT" ELSE "RED", h, "Points", ps, <<>>) :
        n \in 1..2, h \in BOOLEAN, ps \in BandPoints}
    \cup {PlotItem(1, "RED", h, "None", <<>>, <<>>) : h \in BOOLEAN}
    \cup {PlotItem(2, "RED", h, "Rects", <<>>, <<CHOOSE b \in HitBars : b.argument = R(1)>>) :
        h \in BOOLEAN}

\* The transforms of a plot: both frames, no inversion.
PlotTransforms == {t \in HitTransforms : ~t.inverted_axis[1]}

InitHit ==
    /\ \/ \E item \in QueriedItems, t \in HitTransforms, p \in HitPositions :
             hin = [kind |-> "item", items |-> <<item>>, transform |-> t,
                    pointer |-> Some(p), radius_px |-> ZERO]
       \/ \E items \in SeqUpTo(PlotItems, MaxItems), t \in PlotTransforms,
             p \in {None} \cup {Some(q) : q \in HitPositions}, r \in Radii :
             hin = [kind |-> "plot", items |-> items, transform |-> t,
                    pointer |-> p, radius_px |-> r]
    /\ hout = NoCall

\* A box plot is a Rects item that holds boxes.
is_box_plot(item) == item.geometry = "Rects" /\ item.bars # <<>> /\ is_box(item.bars[1])

\* item.find_closest(point, transform), dispatched on the item's kind: a bar
\* chart and a box plot override the default.
FindClosest ==
    /\ hin.kind = "item"
    /\ hout.op = "none"
    /\ LET item == hin.items[1]
       IN  hout' = [op |-> "find_closest",
                    result |-> IF is_box_plot(item)
                               THEN BoxPlot_find_closest(item, hin.pointer.value, hin.transform)
                               ELSE IF item.geometry = "Rects"
                               THEN BarChart_find_closest(item, hin.pointer.value, hin.transform)
                               ELSE find_closest(item, hin.pointer.value, hin.transform)]
    /\ UNCHANGED <<hin, tvars, bvars, gvars, lvars, cvars, pvars>>

\* The default item.on_hover(elem) on an item that does not override it.
OnHover ==
    /\ hin.kind = "item"
    /\ hout.op = "none"
    /\ LET item == hin.items[1]
       IN  /\ item.geometry = "None" \/ (item.geometry = "Points" /\ item.points # <<>>)
           /\ hout' = [op |-> "on_hover", result |-> on_hover(item)]
    /\ UNCHANGED <<hin, tvars, bvars, gvars, lvars, cvars, pvars>>

CollectHits ==
    /\ hin.kind = "plot"
    /\ hout.op = "none"
    /\ hout' = [op |-> "collect_hits",
                result |-> collect_hits(hin.items, hin.transform, hin.pointer, hin.radius_px)]
    /\ UNCHANGED <<hin, tvars, bvars, gvars, lvars, cvars, pvars>>

TooltipHits ==
    /\ hin.kind = "plot"
    /\ hout.op = "none"
    /\ hout' = [op |-> "show_tooltip_across_series_with",
                result |-> tooltip_hits(hin.items, hin.transform, hin.pointer, hin.radius_px)]
    /\ UNCHANGED <<hin, tvars, bvars, gvars, lvars, cvars, pvars>>

NextHit == FindClosest \/ OnHover \/ CollectHits \/ TooltipHits

InitHitOnly == InitHit /\ TransformIdle /\ BoundsIdle /\ GridIdle /\ LinkIdle /\ ColorIdle /\ PinIdle

SpecHit == InitHitOnly /\ [][NextHit]_vars

----------------------------------------------------------------------------
(* A heatmap built, configured and painted; a colormap built and sampled. *)

MaxBuilderCalls == 2

RED == from_rgb(255, 0, 0)
GREEN == from_rgb(0, 255, 0)
BLUE == from_rgb(0, 0, 255)

\* Arguments of Heatmap::new: a 2 x 2 heatmap, a single row reaching below
\* zero, a flat one, one with a NaN and an infinite tile, and invalid
\* arguments (no values; a length that is not a multiple of cols).
HeatmapInputs ==
    {<<<<R(0), R(1), R(2), R(4)>>, 2>>,
     <<<<R(-1), HALF, R(3)>>, 3>>,
     <<<<ONE, ONE>>, 1>>,
     <<<<NaN, ONE, INFINITY>>, 3>>,
     <<<<>>, 0>>,
     <<<<ONE, TWO, R(3)>>, 2>>}

\* Arguments of Heatmap::range, including pairs that fail its assertion.
RangeEnds == {R(0), R(2), R(4), NaN}

\* Base colour lists and keypoint lists.
BaseColorLists == {<<>>, <<RED>>, <<RED, BLUE>>, <<RED, GREEN, BLUE>>}

Resolutions == {0, 1, 3, DEFAULT_RESOLUTION}

CustomMappings == {<<BLUE, RED>>}

KeypointLists ==
    {<<>>, <<<<HALF, GREEN>>>>, <<<<ONE, BLUE>>, <<ZERO, RED>>>>,
     <<<<ZERO, RED>>, <<HALF, GREEN>>, <<ONE, BLUE>>>>}

\* Sampling positions, as in the tests of colormap.rs, and NaN and +inf.
SamplePositions ==
    {Div(R(-1), TWO), ZERO, Div(ONE, R(4)), HALF, Div(R(3), R(4)), ONE, Div(R(3), TWO),
     NaN, INFINITY}

Colormap_new_uniform(colors) ==
    [input |-> [kind |-> "uniform", given |-> colors], data |-> ColormapData_new_uniform(colors)]

Colormap_new_with_positions(keypoints) ==
    [input |-> [kind |-> "positions", given |-> keypoints],
     data |-> ColormapData_new_nonuniform(keypoints)]

InitColor ==
    /\ \E in \in HeatmapInputs : heatmap = Heatmap_new(in[1], in[2])
    /\ hcalls = <<>>
    /\ painted = None
    /\ colormap \in {Colormap_new_uniform(c) : c \in BaseColorLists}
                    \cup {Colormap_new_with_positions(k) : k \in KeypointLists}
    /\ got = None

can_build == heatmap # Panic /\ ~painted.some /\ Len(hcalls) < MaxBuilderCalls

HeatmapRange ==
    /\ can_build
    /\ \E min \in RangeEnds, max \in RangeEnds :
          /\ heatmap' = Heatmap_range(heatmap, min, max)
          /\ hcalls' = Append(hcalls, [op |-> "range", arg |-> <<min, max>>])
    /\ UNCHANGED <<painted, colormap, got, tvars, bvars, gvars, lvars, hvars, pvars>>

HeatmapPalette ==
    /\ can_build
    /\ \E base_colors \in BaseColorLists :
          /\ heatmap' = Heatmap_palette(heatmap, base_colors)
          /\ hcalls' = Append(hcalls, [op |-> "palette", arg |-> base_colors])
    /\ UNCHANGED <<painted, colormap, got, tvars, bvars, gvars, lvars, hvars, pvars>>

HeatmapResolution ==
    /\ can_build
    /\ \E resolution \in Resolutions :
          /\ heatmap' = Heatmap_resolution(heatmap, resolution)
          /\ hcalls' = Append(hcalls, [op |-> "resolution", arg |-> resolution])
    /\ UNCHANGED <<painted, colormap, got, tvars, bvars, gvars, lvars, hvars, pvars>>

HeatmapCustomMapping ==
    /\ can_build
    /\ \E mapping \in CustomMappings :
          /\ heatmap' = Heatmap_custom_mapping(heatmap, mapping)
          /\ hcalls' = Append(hcalls, [op |-> "custom_mapping", arg |-> mapping])
    /\ UNCHANGED <<painted, colormap, got, tvars, bvars, gvars, lvars, hvars, pvars>>

\* The frame paints the heatmap: push_shapes calls tile_view_info per tile.
PushShapes ==
    /\ heatmap # Panic
    /\ ~painted.some
    /\ painted' = Some(push_shapes(heatmap))
    /\ UNCHANGED <<heatmap, hcalls, colormap, got, tvars, bvars, gvars, lvars, hvars, pvars>>

ColormapGet ==
    /\ ~got.some
    /\ \E t \in SamplePositions : got' = Some([t |-> t, color |-> Colormap_get(colormap.data, t)])
    /\ UNCHANGED <<heatmap, hcalls, painted, colormap, tvars, bvars, gvars, lvars, hvars, pvars>>

NextColor ==
    \/ HeatmapRange \/ HeatmapPalette \/ HeatmapResolution \/ HeatmapCustomMapping
    \/ PushShapes \/ ColormapGet

InitColorOnly == InitColor /\ TransformIdle /\ BoundsIdle /\ GridIdle /\ LinkIdle /\ HitIdle /\ PinIdle

SpecColor == InitColorOnly /\ [][NextColor]_vars

----------------------------------------------------------------------------
(* The pin list of one plot over a few frames. *)

MaxFrames == 2

Keys == {"P", "U", "Delete"}

\* The plot: one transform, and its items (two series, or none).
PinTransform == CHOOSE t \in PlotTransforms : t.frame.right = R(4)
PinItemLists ==
    {<<>>,
     <<PlotItem(2, "RED", TRUE, "Points", <<<<R(1), R(2)>>>>, <<>>),
       PlotItem(1, "TRANSPARENT", TRUE, "Points", <<<<R(2), HALF>>>>, <<>>)>>}

\* Pointer positions: unknown, inside the frame, outside it.
PinPointers == {None, Some(<<R(2), R(2)>>), Some(<<R(5), R(5)>>)}

\* Hit lists a caller can hand to show_pins_with_hits; show_pins hands it the
\* list collect_hits returns in the frame.
GivenHits ==
    {collect_hits(items, PinTransform, q, R(1)) : items \in PinItemLists, q \in PinPointers}

\* Pin lists a caller can hand to init_pins.
GivenPins ==
    {<<>>, <<[hits |-> <<>>, plot_x |-> R(3)], [hits |-> <<>>, plot_x |-> ONE]>>}

InitPins ==
    /\ pins = <<>>
    /\ pframe = NoFrame
    /\ nframes = 0

Frame(handler, hovered, keys, pointer, hits) ==
    [handler |-> handler, hovered |-> hovered, keys |-> keys, pointer |-> pointer,
     hits |-> hits, prev |-> pins]

\* A frame handled by show_pins_with_hits, called directly or by show_pins.
ShowPinsWithHits ==
    /\ nframes < MaxFrames
    /\ \E hits \in GivenHits, hovered \in BOOLEAN, keys \in SUBSET Keys, pointer \in PinPointers :
          /\ pins' = show_pins_with_hits(pins, hits, PinTransform, hovered, keys, pointer)
          /\ pframe' = Frame("show_pins_with_hits", hovered, keys, pointer, hits)
    /\ nframes' = nframes + 1
    /\ UNCHANGED <<tvars, bvars, gvars, lvars, hvars, cvars>>

ShowTooltipAcrossSeriesWith ==
    /\ nframes < MaxFrames
    /\ \E items \in PinItemLists, r \in Radii, hovered \in BOOLEAN, keys \in SUBSET Keys,
          pointer \in PinPointers :
          /\ pins' = show_tooltip_across_series_with(pins, items, PinTransform, r, hovered,
                                                     keys, pointer)
          /\ pframe' = Frame("show_tooltip_across_series_with", hovered, keys, pointer,
                             tooltip_hits(items, PinTransform, pointer, r))
    /\ nframes' = nframes + 1
    /\ UNCHANGED <<tvars, bvars, gvars, lvars, hvars, cvars>>

CallInitPins ==
    /\ nframes < MaxFrames
    /\ \E given \in GivenPins :
          /\ pins' = init_pins(pins, given)
          /\ pframe' = Frame("init_pins", FALSE, {}, None, <<>>)
    /\ nframes' = nframes + 1
    /\ UNCHANGED <<tvars, bvars, gvars, lvars, hvars, cvars>>

NextPins == ShowPinsWithHits \/ ShowTooltipAcrossSeriesWith \/ CallInitPins

InitPinsOnly == InitPins /\ TransformIdle /\ BoundsIdle /\ GridIdle /\ LinkIdle /\ HitIdle /\ ColorIdle

SpecPins == InitPinsOnly /\ [][NextPins]_vars

----------------------------------------------------------------------------
(* Properties of the transform *)

frame_is_positive(f) == Lt(ZERO, frame_width(f)) /\ Lt(ZERO, frame_height(f))

\* Data values probed on one axis of the bounds b (index i).
Probes(b, i) ==
    {b.min[i], b.max[i], fast_midpoint(b.min[i], b.max[i]),
     ZERO, ONE, <<7, 3>>, <<-2, 5>>, R(3)}

inside(b, p) ==
    /\ Le(b.min[1], p[1]) /\ Le(p[1], b.max[1])
    /\ Le(b.min[2], p[2]) /\ Le(p[2], b.max[2])

round_trip(t, p) == value_from_position(t, position_from_point(t, p))

\* Half an f32 step of the screen position, in data units, per axis.
round_trip_tolerance(t, i) == Div(f64_abs(dvalue_dpos(t)[i]), R(2 * F32Res))

\* The two axes are mapped independently: each is probed beside the minimum
\* of the other.
round_trip_holds(t) ==
    /\ \A px \in Probes(t.bounds, 1) :
          inside(t.bounds, <<px, t.bounds.min[2]>>) =>
              Le(f64_abs(Sub(round_trip(t, <<px, t.bounds.min[2]>>)[1], px)),
                 round_trip_tolerance(t, 1))
    /\ \A py \in Probes(t.bounds, 2) :
          inside(t.bounds, <<t.bounds.min[1], py>>) =>
              Le(f64_abs(Sub(round_trip(t, <<t.bounds.min[1], py>>)[2], py)),
                 round_trip_tolerance(t, 2))

\* C1 as claimed: with valid bounds and a frame of positive size, under every
\* setting of the inverted-axis flags, value_from_position(position_from_point(p))
\* equals p for every p inside the bounds, up to the rounding of the f32
\* screen position (half an f32 step, scaled to data units).
C1_RoundTrip ==
    (is_valid(tf.bounds) /\ frame_is_positive(tf.frame)) => round_trip_holds(tf)

\* C1 amended: the same, for valid bounds whose width and height are finite
\* (max - min does not overflow).
C1_RoundTripFiniteExtent ==
    (/\ is_valid(tf.bounds)
     /\ is_finite(width(tf.bounds))
     /\ is_finite(height(tf.bounds))
     /\ frame_is_positive(tf.frame)) => round_trip_holds(tf)

\* A zoomed transform with both axes inverted, where a point strictly inside
\* the bounds comes back moved by the f32 rounding, by less than a tenth of the
\* extent.
C1_Witness ==
    /\ last.op = "zoom"
    /\ tf.bounds # last.prev
    /\ tf.inverted_axis = <<TRUE, TRUE>>
    /\ is_valid(tf.bounds)
    /\ \E px \in Probes(tf.bounds, 1), py \in Probes(tf.bounds, 2) :
          /\ inside(tf.bounds, <<px, py>>)
          /\ px # tf.bounds.min[1] /\ px # tf.bounds.max[1]
          /\ round_trip(tf, <<px, py>>)[1] # px
          /\ Lt(Mul(R(10), f64_abs(Sub(round_trip(tf, <<px, py>>)[1], px))), width(tf.bounds))

\* The bounds PlotBounds::zoom computes for the last zoom call.
last_zoomed ==
    PlotBounds_zoom(last.prev, last.v, value_from_position([tf EXCEPT !.bounds = last.prev], last.c))

\* C2: PlotTransform::zoom replaces the bounds by the zoomed bounds only when
\* these are valid; otherwise the bounds after the call are the bounds before.
C2_ZoomCommitsOnlyValid ==
    last.op = "zoom" =>
        /\ is_valid(last_zoomed) => tf.bounds = last_zoomed
        /\ ~is_valid(last_zoomed) => tf.bounds = last.prev

\* A zoom on valid bounds whose result was invalid and was discarded.
C2_Witness ==
    /\ last.op = "zoom"
    /\ is_valid(last.prev)
    /\ ~is_valid(last_zoomed)
    /\ tf.bounds = last.prev

C5_ConstructorBoundsValid == last.op = "new" => is_valid(tf.bounds)

----------------------------------------------------------------------------
(* Properties of PlotBounds *)

extent_nonnegative(b) == Le(ZERO, width(b)) /\ Le(ZERO, height(b))

\* C4 as claimed: every PlotBounds mutator (expand_x, expand_y, translate,
\* zoom) applied to bounds with width >= 0 and height >= 0 leaves width >= 0
\* and height >= 0.
C4_MutatorsKeepExtentNonNegative ==
    (pblast.op \in {"expand_x", "expand_y", "translate", "zoom"}
        /\ extent_nonnegative(pblast.prev))
        => extent_nonnegative(pb)

\* C4 amended: translate (any delta) and expand_x / expand_y with a padding
\* that is not negative, applied to bounds with width >= 0 and height >= 0,
\* leave width >= 0 and height >= 0.
C4_TranslateAndPadKeepExtentNonNegative ==
    (/\ \/ pblast.op = "translate"
        \/ (pblast.op \in {"expand_x", "expand_y"} /\ ~Lt(pblast.a, ZERO))
     /\ extent_nonnegative(pblast.prev))
        => extent_nonnegative(pb)

\* A second call that padded a thin x range into a proper one.
C4_Witness ==
    /\ pbn = 2
    /\ pblast.op = "expand_x"
    /\ Lt(ZERO, pblast.a)
    /\ is_finite(pblast.a)
    /\ width(pblast.prev) = ZERO
    /\ Le(ZERO, height(pblast.prev))
    /\ Lt(ZERO, width(pb))
    /\ extent_nonnegative(pb)

----------------------------------------------------------------------------
(* Properties of the grid spacer *)

candidates == candidate_marks(gin.step_sizes, gin.bounds)
min_step == min3(gin.step_sizes)

max3(t) ==
    LET m == IF t[1] > t[2] THEN t[1] ELSE t[2]
    IN  IF t[3] > m THEN t[3] ELSE m

\* The marks of the result that are the candidate a or the candidate b.
survivors(a, b) == {k \in DOMAIN gmarks : gmarks[k] \in {a, b}}

\* Of the candidates a and b exactly one is in the result, and it carries the
\* larger of their step sizes.
collapses_to_larger(a, b) ==
    /\ Cardinality(survivors(a, b)) = 1
    /\ \A k \in survivors(a, b) :
          gmarks[k].step_size = (IF a.step_size > b.step_size THEN a.step_size ELSE b.step_size)

\* No candidate other than those at i and j lies within eps of either.
isolated_pair(i, j) ==
    \A k \in DOMAIN candidates \ {i, j} :
        /\ ~within_eps(candidates[k].value, candidates[i].value, min_step)
        /\ ~within_eps(candidates[k].value, candidates[j].value, min_step)

\* C6 as claimed: whenever two candidate marks lie within eps = 0.1 x (smallest
\* step size) of each other, they collapse to the one with the larger
\* step_size: the one with the smaller step_size is not in the list
\* generate_marks returns, in whatever order the step sizes were supplied.
C6_ClosePairCollapsesToLarger ==
    gdone =>
        \A i, j \in DOMAIN candidates :
            (/\ within_eps(candidates[i].value, candidates[j].value, min_step)
             /\ candidates[i].step_size < candidates[j].step_size)
                => candidates[i] \notin {gmarks[k] : k \in DOMAIN gmarks}

\* C6 amended: two candidates within eps of each other that have no third
\* candidate within eps of either of them collapse to one mark of the returned
\* list, the one with the larger step_size, in whatever order the step sizes
\* were supplied.
C6_IsolatedClosePairCollapsesToLarger ==
    gdone =>
        \A i, j \in DOMAIN candidates :
            (/\ i < j
             /\ within_eps(candidates[i].value, candidates[j].value, min_step)
             /\ isolated_pair(i, j))
                => collapses_to_larger(candidates[i], candidates[j])

\* Two candidates at different values within eps of each other, the coarser
\* one at the smaller value and generated after the finer one, no third
\* candidate near them.
C6_Witness ==
    /\ gdone
    /\ \E i, j \in DOMAIN candidates :
          /\ i < j
          /\ candidates[j].value < candidates[i].value
          /\ candidates[j].step_size > candidates[i].step_size
          /\ within_eps(candidates[i].value, candidates[j].value, min_step)
          /\ isolated_pair(i, j)
          /\ candidates[j] \in {gmarks[k] : k \in DOMAIN gmarks}

marks_of_step(i) ==
    LET f == fill_marks_between(gin.step_sizes[i], gin.bounds)
    IN  {f[k].value : k \in DOMAIN f}

\* C7: for each of the three step sizes, the candidate marks generated for it
\* are exactly the integer multiples of it in the closed interval [min, max].
C7_EveryMultipleInClosedInterval ==
    gdone =>
        \A i \in 1..3 :
            marks_of_step(i) =
                {v \in gin.bounds[1]..gin.bounds[2] : v % gin.step_sizes[i] = 0}

\* C8: a value inside the bounds [min, max] that is a multiple of all three
\* step sizes appears exactly once in the list generate_marks returns, with
\* the largest of the three step sizes.
C8_CommonMultipleOnceCoarsest ==
    gdone =>
        \A v \in gin.bounds[1]..gin.bounds[2] :
            (\A i \in 1..3 : v % gin.step_sizes[i] = 0) =>
                /\ Cardinality({k \in DOMAIN gmarks : gmarks[k].value = v}) = 1
                /\ \A k \in DOMAIN gmarks :
                      gmarks[k].value = v => gmarks[k].step_size = max3(gin.step_sizes)

\* The 16 marks test_generate_marks expects, in units of 0.001.
ExpectedTestMarks ==
    [k \in 1..16 |->
        [value |-> 2850 + 10 * k,
         step_size |-> IF k = 15 THEN 1000 ELSE IF k = 5 THEN 100 ELSE 10]]

\* C9: generate_marks with step sizes [0.01, 0.1, 1.0] over (2.855, 3.015)
\* returns exactly 16 marks in ascending order: 2.86..3.01 in steps of 0.01,
\* with 2.90 tagged 0.1, a single 3.00 tagged 1.0 and the others tagged 0.01.
C9_TestGenerateMarks == (gdone /\ gin = TestInput) => gmarks = ExpectedTestMarks

\* generate_marks has run on the test's input.
C9_Witness == gdone /\ gin = TestInput /\ Len(gmarks) = 16

----------------------------------------------------------------------------
(* Properties of the link groups *)

\* C10: within one frame pass, a chart that reads the shared maps under link
\* id L after other charts with the same id wrote gets the value written, and
\* after several writes the value of the most recent writer: the bounds entry
\* is the last LinkedBounds written, and the newest cursor frame is the last
\* PlotFrameCursors written.
C10_ReaderGetsLastWrite ==
    (lread.op = "read" /\ lread.want # <<>>) =>
        LET newest == lread.want[Len(lread.want)]
        IN /\ lread.bounds = newest.linked
           /\ lread.frames # <<>>
           /\ lread.frames[Len(lread.frames)] = newest.frame

\* C10 witness: a chart has read after two charts with its link id wrote
\* different bounds and different cursors earlier in the same pass.
C10_Witness ==
    /\ lread.op = "read"
    /\ Len(lread.want) >= 2
    /\ lread.want[1].linked # lread.want[2].linked
    /\ lread.want[1].frame.cursors # lread.want[2].frame.cursors
    /\ lread.bounds = lread.want[Len(lread.want)].linked

----------------------------------------------------------------------------
(* Properties of the aspect setters and of the constructor *)

\* new contains old on both axes.
contains(new, old) ==
    \A i \in 1..2 : Le(new.min[i], old.min[i]) /\ Le(old.max[i], new.max[i])

\* C11: after set_aspect_by_expanding(target) on a transform with valid
\* bounds, the new bounds contain the old bounds on both axes.
C11_ExpandingContainsOld ==
    (last.op = "set_aspect_by_expanding" /\ is_valid(last.prev))
        => contains(tf.bounds, last.prev)

\* C12: for a fixed frame and a fixed target aspect, repeated calls of
\* set_aspect_by_expanding on valid bounds never decrease the width or the
\* height from one call to the next, and the bounds reach a fixed point: the
\* last of MaxCalls calls leaves them unchanged.
C12_RepeatedExpandingConverges ==
    (last.op = "set_aspect_by_expanding" /\ is_valid(last.prev)) =>
        /\ Le(width(last.prev), width(tf.bounds))
        /\ Le(height(last.prev), height(tf.bounds))
        /\ nops = MaxCalls => tf.bounds = last.prev

\* C13 as claimed: translate_bounds leaves the range of every axis whose
\* centered flag is set exactly unchanged, whatever the delta.
C13_CenteredAxisUnchanged ==
    last.op = "translate_bounds" =>
        \A i \in 1..2 :
            tf.centered[i] =>
                /\ tf.bounds.min[i] = last.prev.min[i]
                /\ tf.bounds.max[i] = last.prev.max[i]

\* C13 amended: translate_bounds leaves the range of every centered axis whose
\* two ends are finite exactly unchanged, whatever the delta.
C13_FiniteCenteredAxisUnchanged ==
    last.op = "translate_bounds" =>
        \A i \in 1..2 :
            (tf.centered[i] /\ is_finite(last.prev.min[i]) /\ is_finite(last.prev.max[i])) =>
                /\ tf.bounds.min[i] = last.prev.min[i]
                /\ tf.bounds.max[i] = last.prev.max[i]

\* C13 witness: a drag with a non-zero x component on a transform whose x axis
\* is centered and finite and whose y axis is not centered: y moved, x did not.
C13_Witness ==
    /\ last.op = "translate_bounds"
    /\ tf.centered = <<TRUE, FALSE>>
    /\ last.v[1] # ZERO
    /\ is_valid(last.prev)
    /\ tf.bounds.min[2] # last.prev.min[2]
    /\ tf.bounds.min[1] = last.prev.min[1]
    /\ tf.bounds.max[1] = last.prev.max[1]

\* Axis i of bounds b is finite with extent <= 0.
thin_axis(b, i) ==
    /\ is_finite(b.min[i])
    /\ is_finite(b.max[i])
    /\ Le(Sub(b.max[i], b.min[i]), ZERO)

\* The extent a thin axis i borrows: the extent of the other axis in the input
\* bounds b if that axis is valid there, 1.0 otherwise.
borrowed_extent(b, i) ==
    LET o == 3 - i
    IN  IF is_finite(b.min[o]) /\ is_finite(b.max[o]) /\ Lt(ZERO, Sub(b.max[o], b.min[o]))
        THEN Sub(b.max[o], b.min[o])
        ELSE ONE

C15_NonFiniteBoundsBecomeUnitSquare ==
    (last.op = "new" /\ ~is_finite_x(ctor) /\ ~is_finite_y(ctor)) =>
        tf.bounds = from_min_max(<<R(-1), R(-1)>>, <<R(1), R(1)>>)

\* C15 witness: the transform built from NOTHING, with both axes centered.
C15_Witness ==
    /\ last.op = "new"
    /\ ctor = NOTHING
    /\ tf.centered = <<TRUE, TRUE>>
    /\ tf.bounds.min = <<R(-1), R(-1)>>
    /\ tf.bounds.max = <<R(1), R(1)>>

----------------------------------------------------------------------------
(* Properties of hit testing *)

\* The item and the query position of a find_closest or on_hover call.
queried_item == hin.items[1]
query_pos == hin.pointer.value

\* The squared distance on screen from the query position to point k (from 1)
\* of the queried item.
point_dist_sq(k) ==
    distance_sq(query_pos, position_from_point(hin.transform, queried_item.points[k]))

\* C16: for an item with point geometry and at least one point, the default
\* find_closest returns an index i and a squared distance d where d is the
\* squared distance between the query position and the screen position of
\* point i, and no point of the item has a smaller squared distance (a NaN
\* distance is returned only if every distance is NaN).
C16_FindClosestReturnsMinimum ==
    (hout.op = "find_closest" /\ queried_item.geometry = "Points" /\ queried_item.points # <<>>)
    => /\ hout.result # None
       /\ hout.result # Panic
       /\ hout.result.value.index \in 0..(Len(queried_item.points) - 1)
       /\ hout.result.value.dist_sq = point_dist_sq(hout.result.value.index + 1)
       /\ \A k \in 1..Len(queried_item.points) :
             /\ ~Lt(point_dist_sq(k), hout.result.value.dist_sq)
             /\ is_nan(hout.result.value.dist_sq) => is_nan(point_dist_sq(k))

\* C16 witness: find_closest returned a point that is not the first of an
\* item whose points lie at different finite distances from the query.
C16_Witness ==
    /\ hout.op = "find_closest"
    /\ queried_item.geometry = "Points"
    /\ Len(queried_item.points) = MaxPoints
    /\ hout.result # None
    /\ hout.result.value.index > 0
    /\ \A k \in 1..Len(queried_item.points) :
          k # hout.result.value.index + 1 => Lt(hout.result.value.dist_sq, point_dist_sq(k))

\* C17 as claimed: hit testing an item whose geometry is none is a contract
\* violation: neither find_closest nor on_hover returns a normal result for
\* such an item.
C17_NoGeometryNeverReturns ==
    (hout.op \in {"find_closest", "on_hover"} /\ queried_item.geometry = "None")
    => hout.result = Panic

\* C17 amended: for an item whose geometry is none, on_hover does not return
\* (it panics), while find_closest returns normally, with None for no match.
C17_NoGeometryOnHoverPanicsFindClosestNone ==
    (hout.op \in {"find_closest", "on_hover"} /\ queried_item.geometry = "None")
    => /\ hout.op = "on_hover" => hout.result = Panic
       /\ hout.op = "find_closest" => hout.result = None

\* C17 witness: find_closest was called on an item whose geometry is none
\* and returned None.
C17_Witness ==
    /\ hout.op = "find_closest"
    /\ queried_item.geometry = "None"
    /\ hout.result = None

\* The screen rectangle of element k (from 1) of the queried bar chart or box
\* plot, and its squared distance to the query position.
element_rect(k) ==
    rect_from_values(hin.transform, bounds_min(queried_item.bars[k]), bounds_max(queried_item.bars[k]))
element_dist_sq(k) == distance_sq_to_pos(element_rect(k), query_pos)

\* The query position lies inside the screen rectangle of element k.
query_inside(k) ==
    /\ Le(element_rect(k).min[1], query_pos[1]) /\ Le(query_pos[1], element_rect(k).max[1])
    /\ Le(element_rect(k).min[2], query_pos[2]) /\ Le(query_pos[2], element_rect(k).max[2])

hoverable_named(n) ==
    {i \in 1..Len(hin.items) :
        hin.items[i].allow_hover /\ hin.items[i].geometry = "Points" /\ hin.items[i].name = n}
hits_named(n) == {j \in 1..Len(hout.result) : hout.result[j].series_name = n}

\* C19: an item whose allow-hover flag is false is excluded from hit
\* collection: for every pointer position and band radius, every hit returned
\* by collect_hits (and gathered by the tooltip) carries a point of an item
\* that allows hovering, and no name has more hits than it has such items.
C19_NonHoverableItemsExcluded ==
    (hout.op \in {"collect_hits", "show_tooltip_across_series_with"})
    => /\ \A j \in 1..Len(hout.result) :
             \E i \in hoverable_named(hout.result[j].series_name) :
                \E k \in 1..Len(hin.items[i].points) :
                   hin.items[i].points[k] = hout.result[j].value
       /\ \A n \in 1..2 : Cardinality(hits_named(n)) <= Cardinality(hoverable_named(n))

\* C19 witness: two items with the same name and the same points, the first
\* not hoverable, and collect_hits returned one hit only.
C19_Witness ==
    /\ hout.op = "collect_hits"
    /\ Len(hin.items) = 2
    /\ ~hin.items[1].allow_hover
    /\ hin.items[2].allow_hover
    /\ hin.items[1].geometry = "Points"
    /\ hin.items[2].geometry = "Points"
    /\ hin.items[1].name = hin.items[2].name
    /\ hin.items[1].points = hin.items[2].points
    /\ Len(hout.result) = 1

\* The queried item has no element: a point item without points, or a bar
\* chart or box plot without bars or boxes.
no_elements ==
    \/ queried_item.geometry = "Points" /\ queried_item.points = <<>>
    \/ queried_item.geometry = "Rects" /\ queried_item.bars = <<>>

\* C20: hit testing over zero elements returns no match instead of failing:
\* find_closest on a point item with an empty point sequence returns None,
\* and find_closest_rect over an empty element list returns None.
C20_NoElementsNoMatch ==
    (hout.op = "find_closest" /\ no_elements) => hout.result = None

\* C20 witness: find_closest_rect ran over the empty element list of a bar
\* chart and returned None.
C20_Witness ==
    /\ hout.op = "find_closest"
    /\ queried_item.geometry = "Rects"
    /\ queried_item.bars = <<>>
    /\ hout.result = None

----------------------------------------------------------------------------
(* Properties of the logarithmic grid spacer *)

RECURSIVE is_power_of(_, _)
is_power_of(u, b) == u = 1 \/ (u > 1 /\ u % b = 0 /\ is_power_of(u \div b, b))

\* u is the smallest whole power of b at or above |s|: u >= |s| > u / b.
is_smallest_power_at_or_above(u, b, st) ==
    /\ is_power_of(u, b)
    /\ u >= Abs(st)
    /\ u < b * Abs(st)

\* C21: the logarithmic spacer with base b, given a non-zero base_step_size
\* s, uses as its smallest unit u the smallest integer power of b at or above
\* |s| (u >= |s| > u/b), and every mark it returns has step_size u, u*b or
\* u*b*b.
C21_LogSpacerSmallestUnit ==
    (gdone /\ gin.base_step_size # 0)
    => \E u \in 1..(gin.log_base * MaxBaseStep) :
          /\ is_smallest_power_at_or_above(u, gin.log_base, gin.base_step_size)
          /\ next_power(gin.base_step_size, gin.log_base) = u
          /\ \A k \in 1..Len(gmarks) :
                gmarks[k].step_size \in {u, u * gin.log_base, u * gin.log_base * gin.log_base}

----------------------------------------------------------------------------
(* Properties of the aspect setters around the target *)

\* The transform as it was before the last call: only the bounds change.
tf_before == [tf EXCEPT !.bounds = last.prev]

is_aspect_setter(op) == op \in {"set_aspect_by_expanding", "set_aspect_by_changing_axis"}

\* C22: set_aspect_by_expanding and set_aspect_by_changing_axis leave the
\* bounds exactly unchanged whenever the current aspect differs from the
\* target aspect by less than 1e-5.
C22_NoChangeWithinEpsilon ==
    (is_aspect_setter(last.op)
        /\ Lt(f64_abs(Sub(aspect(tf_before), last.a)), <<1, 100000>>))
    => tf.bounds = last.prev

\* C22 witness: set_aspect_by_changing_axis was called with a target that
\* differs from the current aspect, by less than 1e-5, and the bounds are as
\* before.
C22_Witness ==
    /\ last.op = "set_aspect_by_changing_axis"
    /\ is_valid(last.prev)
    /\ last.a # aspect(tf_before)
    /\ Lt(f64_abs(Sub(aspect(tf_before), last.a)), <<1, 100000>>)
    /\ tf.bounds = last.prev

\* The axis that was not designated in the last call has the ends it had.
other_axis_unchanged ==
    IF last.axis = "X"
    THEN tf.bounds.min[2] = last.prev.min[2] /\ tf.bounds.max[2] = last.prev.max[2]
    ELSE tf.bounds.min[1] = last.prev.min[1] /\ tf.bounds.max[1] = last.prev.max[1]

\* C23 as claimed: set_aspect_by_changing_axis(target, axis) changes only
\* the range of the designated axis, and after the call the aspect equals
\* the target.
C23_OnlyDesignatedAxisAndAspectReached ==
    (last.op = "set_aspect_by_changing_axis")
    => (other_axis_unchanged /\ aspect(tf) = last.a)

\* C23 amended: on valid bounds the other axis keeps its ends; the aspect
\* equals the target after the call if the aspect before it was finite and
\* at least 1e-5 away from a finite non-zero target; if it was less than 1e-5
\* away the aspect is still the one before the call.
C23_OnlyDesignatedAxisAndAspectReachedOutsideEpsilon ==
    (last.op = "set_aspect_by_changing_axis" /\ is_valid(last.prev))
    => /\ other_axis_unchanged
       /\ (is_finite(aspect(tf_before)) /\ is_finite(last.a) /\ last.a # ZERO
              /\ ~Lt(f64_abs(Sub(aspect(tf_before), last.a)), <<1, 100000>>))
          => aspect(tf) = last.a
       /\ Lt(f64_abs(Sub(aspect(tf_before), last.a)), <<1, 100000>>)
          => aspect(tf) = aspect(tf_before)

\* C23 witness: set_aspect_by_changing_axis changed the y range of valid
\* bounds to reach a target that was more than 1e-5 away.
C23_Witness ==
    /\ last.op = "set_aspect_by_changing_axis"
    /\ last.axis = "Y"
    /\ is_valid(last.prev)
    /\ is_finite(aspect(tf_before))
    /\ ~Lt(f64_abs(Sub(aspect(tf_before), last.a)), <<1, 100000>>)
    /\ Lt(ZERO, last.a)
    /\ tf.bounds # last.prev
    /\ other_axis_unchanged
    /\ aspect(tf) = last.a

----------------------------------------------------------------------------
(* Properties of the unit zoom *)

\* No difference between a finite end of b and the centre c overflows.
centre_in_reach(b, c) ==
    /\ is_finite(c[1]) /\ is_finite(c[2])
    /\ \A i \in 1..2 :
          /\ is_finite(b.min[i]) => is_finite(Sub(b.min[i], c[i]))
          /\ is_finite(b.max[i]) => is_finite(Sub(b.max[i], c[i]))

\* C24 as claimed: zooming with factor (1, 1) around any centre leaves the
\* bounds unchanged, both for PlotBounds::zoom with any data-space centre and
\* for PlotTransform::zoom with any screen-space centre.
C24_UnitZoomIsIdentity ==
    /\ (pblast.op = "zoom" /\ pblast.v = <<ONE, ONE>>) => pb = pblast.prev
    /\ (last.op = "zoom" /\ last.v = <<ONE, ONE>>) => tf.bounds = last.prev

\* C24 amended: PlotBounds::zoom with factor (1, 1) leaves the bounds
\* unchanged if the centre is finite and no difference between a finite end
\* and the centre overflows; PlotTransform::zoom with factor (1, 1) leaves
\* valid bounds unchanged around any screen-space centre.
C24_UnitZoomIsIdentityInReach ==
    /\ (pblast.op = "zoom" /\ pblast.v = <<ONE, ONE>> /\ centre_in_reach(pblast.prev, pblast.c))
       => pb = pblast.prev
    /\ (last.op = "zoom" /\ last.v = <<ONE, ONE>>) => tf.bounds = last.prev

\* C24 witness: both a PlotBounds with finite positive extents and a
\* transform were zoomed with factor (1, 1), the former around a centre
\* outside the bounds, and both have the bounds they had.
C24_Witness ==
    /\ pblast.op = "zoom" /\ pblast.v = <<ONE, ONE>>
    /\ is_valid(pblast.prev)
    /\ Lt(pblast.c[1], pblast.prev.min[1])
    /\ pb = pblast.prev
    /\ last.op = "zoom" /\ last.v = <<ONE, ONE>>
    /\ last.c # <<tf.frame.left, tf.frame.top>>
    /\ tf.bounds = last.prev

----------------------------------------------------------------------------
(* Properties of the scale factors *)

position_on_axis(t, i, v) == IF i = 1 THEN position_from_point_x(t, v) ELSE position_from_point_y(t, v)

\* Steps in data space.
ProbeSteps == {ONE, HALF, R(-1), <<1, 3>>}

\* The screen distance between the positions of v and v + d is d times
\* dpos_dvalue, up to the rounding of the two positions to f32.
affine_at(t, i, v, d) ==
    Le(f64_abs(Sub(Sub(position_on_axis(t, i, Add(v, d)), position_on_axis(t, i, v)),
                   Mul(d, dpos_dvalue(t)[i]))),
       <<1, F32Res>>)

in_range(b, i, v) == Le(b.min[i], v) /\ Le(v, b.max[i])

affine_on_axis(t, i) ==
    \A v \in Probes(t.bounds, i), d \in ProbeSteps :
        (in_range(t.bounds, i, v) /\ in_range(t.bounds, i, Add(v, d))) => affine_at(t, i, v, d)

with_inverted(t, ia) == [t EXCEPT !.inverted_axis = ia]

scale_factors_hold(t) ==
    /\ \A ia \in BOOL2, i \in 1..2 :
          /\ affine_on_axis(with_inverted(t, ia), i)
          /\ Mul(dvalue_dpos(with_inverted(t, ia))[i], dpos_dvalue(with_inverted(t, ia))[i]) = ONE
          /\ dpos_dvalue(with_inverted(t, <<~ia[1], ~ia[2]>>))[i]
                = Neg(dpos_dvalue(with_inverted(t, ia))[i])
    /\ Lt(ZERO, dpos_dvalue(with_inverted(t, <<FALSE, FALSE>>))[1])
    /\ Lt(dpos_dvalue(with_inverted(t, <<FALSE, FALSE>>))[2], ZERO)

\* C28 as claimed: for every axis and every setting of its inverted flag the
\* screen position is an affine function of the data value with slope
\* dpos_dvalue (up to the rounding of a position to f32), dvalue_dpos is the
\* reciprocal of dpos_dvalue, and inverting an axis flips the sign of both
\* (x slope positive and y slope negative when not inverted).
C28_PositionAffineWithSlope == scale_factors_hold(tf)

\* C28 amended: the same, for valid bounds whose width and height are finite.
C28_PositionAffineWithSlopeFiniteExtent ==
    (is_valid(tf.bounds) /\ is_finite(width(tf.bounds)) /\ is_finite(height(tf.bounds)))
    => scale_factors_hold(tf)

\* C28 witness: a panned transform with the x axis inverted, where a step of
\* 1 in x moves the screen position to the left by exactly dpos_dvalue_x.
C28_Witness ==
    /\ last.op = "translate_bounds"
    /\ tf.bounds # last.prev
    /\ tf.inverted_axis = <<TRUE, FALSE>>
    /\ is_valid(tf.bounds)
    /\ is_finite(width(tf.bounds))
    /\ in_range(tf.bounds, 1, Add(tf.bounds.min[1], ONE))
    /\ Lt(dpos_dvalue_x(tf), ZERO)
    /\ Sub(position_from_point_x(tf, Add(tf.bounds.min[1], ONE)),
           position_from_point_x(tf, tf.bounds.min[1])) = dpos_dvalue_x(tf)

----------------------------------------------------------------------------
(* Order and spacing of the marks *)

\* C29: the list returned by generate_marks is strictly ascending by value,
\* and any two consecutive marks in it differ in value by at least
\* eps = 0.1 x (smallest of the three step sizes).
C29_MarksAscendingAndSpaced ==
    gdone =>
        \A k \in 1..(Len(gmarks) - 1) :
            /\ gmarks[k].value < gmarks[k + 1].value
            /\ 10 * (gmarks[k + 1].value - gmarks[k].value) >= min3(gin.step_sizes)

\* C29 witness: generate_marks returned at least three marks of step sizes
\* given out of order, fewer than the candidates, two of them exactly eps
\* apart.
C29_Witness ==
    /\ gdone
    /\ Len(gmarks) >= 3
    /\ gin.step_sizes[1] > gin.step_sizes[2]
    /\ Len(gmarks) < Len(candidate_marks(gin.step_sizes, gin.bounds))
    /\ \E k \in 1..(Len(gmarks) - 1) :
          10 * (gmarks[k + 1].value - gmarks[k].value) = min3(gin.step_sizes)

----------------------------------------------------------------------------
(* The zoom centre *)

positive_factors(v) == Lt(ZERO, v[1]) /\ Lt(ZERO, v[2])

zoom_committed == last.op = "zoom" /\ is_valid(last_zoomed)

\* C30: after a committed PlotTransform::zoom(factor, c) with positive
\* factors, the data value under the screen position c is the same as before
\* the zoom: value_from_position(c) is unchanged by the call.
C30_ZoomCentreIsFixedPoint ==
    (zoom_committed /\ positive_factors(last.v))
        => value_from_position(tf, last.c) = value_from_position(tf_before, last.c)

\* C30 witness: a zoom by (2, 2) about a screen position off the frame's
\* corner, on an axis-inverted transform, was committed and moved both ends
\* of the x range.
C30_Witness ==
    /\ zoom_committed
    /\ last.v = <<TWO, TWO>>
    /\ last.c # <<tf.frame.left, tf.frame.top>>
    /\ tf.inverted_axis[1]
    /\ tf.bounds.min[1] # last.prev.min[1]
    /\ tf.bounds.max[1] # last.prev.max[1]

----------------------------------------------------------------------------
(* Properties of the heatmap colours and of empty palettes *)

was_called(op) == \E k \in 1..Len(hcalls) : hcalls[k].op = op

\* C25: after Heatmap::range(min, max) and with no custom mapping, every tile
\* whose value is at or above max is coloured with the last colour of the
\* palette and every tile whose value is at or below min is coloured with the
\* first colour of the palette.
C25_OutOfRangeTilesGetEndColours ==
    (/\ painted.some
     /\ was_called("range")
     /\ ~heatmap.custom_mapping.some
     /\ heatmap.palette # <<>>)
    => /\ painted.value # Panic
       /\ \A i \in 1..Len(heatmap.values) :
             /\ Le(heatmap.max, heatmap.values[i])
                   => painted.value[i] = heatmap.palette[Len(heatmap.palette)]
             /\ Le(heatmap.values[i], heatmap.min)
                   => painted.value[i] = heatmap.palette[1]

last_palette_call_was_empty ==
    /\ hcalls # <<>>
    /\ hcalls[Len(hcalls)].op = "palette"
    /\ hcalls[Len(hcalls)].arg = <<>>

\* C26: a colormap built from an empty colour or keypoint list returns the
\* transparent colour for every t, inside or outside [0, 1], and a heatmap
\* palette built from an empty base-colour list consists only of transparent
\* entries; neither fails.
C26_EmptyPaletteIsTransparent ==
    /\ (got.some /\ colormap.input.given = <<>>) => got.value.color = TRANSPARENT
    /\ last_palette_call_was_empty =>
          /\ heatmap # Panic
          /\ Len(heatmap.palette) = heatmap.resolution
          /\ \A i \in 1..Len(heatmap.palette) : heatmap.palette[i] = TRANSPARENT

\* C26 witness: a colormap built from an empty list was sampled above 1, and
\* a heatmap of non-zero resolution was given an empty base-colour list.
C26_Witness ==
    /\ got.some
    /\ colormap.input.given = <<>>
    /\ colormap.input.kind = "positions"
    /\ Lt(ONE, got.value.t)
    /\ last_palette_call_was_empty
    /\ heatmap.resolution > 1
    /\ heatmap.values # <<>>

----------------------------------------------------------------------------
(* Properties of the stored pin list *)

frame_taken == pframe.handler # "none"

\* The lists the key steps can leave behind in a hovered frame: P (only with
\* a hit and a known pointer position) appends one pin, then U removes the
\* last pin, then Delete empties the list; a step is taken only if its key is
\* pressed.
reachable_by_key_steps ==
    \E push \in BOOLEAN, remove \in BOOLEAN, clear \in BOOLEAN :
        /\ push => ("P" \in pframe.keys /\ pframe.hits # <<>> /\ pframe.pointer # None)
        /\ remove => "U" \in pframe.keys
        /\ clear => "Delete" \in pframe.keys
        /\ LET pushed == IF push THEN /\ Len(pins) = Len(pframe.prev) + 1
                                      /\ SubSeq(pins, 1, Len(pframe.prev)) = pframe.prev
                         ELSE pins = pframe.prev
           IN  IF clear THEN pins = <<>>
               ELSE IF remove /\ push THEN pins = pframe.prev
               ELSE IF remove THEN pins = pop(pframe.prev)
               ELSE pushed

\* C27: the stored pin list changes only through the key steps, each taken
\* only in a frame where the plot is hovered; in every other frame the stored
\* pin list is the same as in the previous frame.
C27_PinsChangeOnlyByHoveredKeys ==
    frame_taken =>
        IF pframe.hovered THEN reachable_by_key_steps ELSE pins = pframe.prev

\* C27 amended: the same, for the frames handled by show_pins_with_hits
\* (also when called by show_pins) and show_tooltip_across_series_with; init_pins
\* replaces the stored list by the list it is given.
C27_HandlersChangePinsOnlyByHoveredKeys ==
    (frame_taken /\ pframe.handler # "init_pins") =>
        IF pframe.hovered THEN reachable_by_key_steps ELSE pins = pframe.prev

\* C27 witness: in a hovered frame with P pressed, a hit and a known pointer,
\* one pin was appended to a list that already held a pin.
C27_Witness ==
    /\ frame_taken
    /\ pframe.handler = "show_pins_with_hits"
    /\ pframe.hovered
    /\ pframe.keys = {"P"}
    /\ pframe.prev # <<>>
    /\ Len(pins) = Len(pframe.prev) + 1
    /\ pins[Len(pins)].hits = pframe.hits

====
